---- MODULE Spec2Model ----
(***************************************************************************)
(* Content resolution core of ai-daily: the front-matter splitter, the     *)
(* paper parser and the issue resolver (lib/content), the digest            *)
(* sectionizer (lib/digest) and the markdown block parser (lib/markdown).   *)
(*                                                                          *)
(* Text is a sequence of one-character strings, so that split, trim,        *)
(* indexOf, slice and the regular expressions of the source are computed    *)
(* character by character; a character outside ASCII, and the backquote,   *)
(* is written as its code point ("U+4ECA", "U+0060").  An optional value    *)
(* (T | undefined, T | null) is a sequence of length 0 or 1.                *)
(***************************************************************************)
EXTENDS Integers, Sequences, FiniteSets, TLC

VARIABLES
    \* issue resolver: the issues/ directory tree and the last call's outcome
    fs, result,
    \* digest sectionizer: parseDigest's locals
    issue, lines, pos, mode, currentFocus, highlights, trends, focus, dpc,
    \* markdown block parser: parseBlocks's locals
    markdown, mdLines, i, blocks, origin, bpc,
    \* front-matter splitter: the document, the split and the re-split
    raw, fm, fpc,
    \* the resolver calls in flight, each with its locals
    calls,
    \* the page in the browser: what the theme script and ThemeToggle read
    \* and write
    page

resolverVars == <<fs, result>>
digestVars == <<issue, lines, pos, mode, currentFocus, highlights, trends, focus, dpc>>
blockVars == <<markdown, mdLines, i, blocks, origin, bpc>>
fmVars == <<raw, fm, fpc>>
vars == <<resolverVars, digestVars, blockVars, fmVars, calls, page>>

None == <<>>
Some(v) == <<v>>

Range(q) == { q[k] : k \in 1..Len(q) }

(***************************************************************************)
(* String primitives (ECMAScript String.prototype, as the source uses them) *)
(***************************************************************************)
Whitespace == {" ", "\t", "\n", "\r"}

RECURSIVE TrimStart(_)
TrimStart(s) ==
    IF s # <<>> /\ Head(s) \in Whitespace THEN TrimStart(Tail(s)) ELSE s

RECURSIVE TrimEnd(_)
TrimEnd(s) ==
    IF s # <<>> /\ s[Len(s)] \in Whitespace
    THEN TrimEnd(SubSeq(s, 1, Len(s) - 1))
    ELSE s

Trim(s) == TrimEnd(TrimStart(s))

StartsWith(s, p) == Len(s) >= Len(p) /\ SubSeq(s, 1, Len(p)) = p

EndsWith(s, p) == Len(s) >= Len(p) /\ SubSeq(s, Len(s) - Len(p) + 1, Len(s)) = p

Includes(s, p) == \E k \in 0..(Len(s) - Len(p)) : SubSeq(s, k + 1, k + Len(p)) = p

\* 0-based index of the first occurrence of the character c, -1 when absent
IndexOf(s, c) ==
    IF \E k \in 1..Len(s) : s[k] = c
    THEN (CHOOSE k \in 1..Len(s) : s[k] = c /\ \A j \in 1..(k - 1) : s[j] # c) - 1
    ELSE -1

\* s.slice(from) and s.slice(from, to) with 0-based, non-negative indices
SliceFrom(s, from) == SubSeq(s, from + 1, Len(s))
Slice(s, from, to) == SubSeq(s, from + 1, to)

RECURSIVE Split(_, _)
Split(s, c) ==
    LET k == IndexOf(s, c)
    IN  IF k = -1 THEN <<s>>
        ELSE <<Slice(s, 0, k)>> \o Split(SliceFrom(s, k + 1), c)

RECURSIVE Join(_, _)
Join(ls, sep) ==
    IF ls = <<>> THEN <<>>
    ELSE IF Len(ls) = 1 THEN ls[1]
    ELSE ls[1] \o sep \o Join(Tail(ls), sep)

\* the printable ASCII characters in code order, from code 32 on
AsciiOrder ==
    << " ", "!", "\"", "#", "$", "%", "&", "'", "(", ")", "*", "+",
       ",", "-", ".", "/", "0", "1", "2", "3", "4", "5", "6", "7",
       "8", "9", ":", ";", "<", "=", ">", "?", "@", "A", "B", "C",
       "D", "E", "F", "G", "H", "I", "J", "K", "L", "M", "N", "O",
       "P", "Q", "R", "S", "T", "U", "V", "W", "X", "Y", "Z", "[",
       "U+005C", "]", "^", "_", "U+0060", "a", "b", "c", "d", "e", "f", "g",
       "h", "i", "j", "k", "l", "m", "n", "o", "p", "q", "r", "s",
       "t", "u", "v", "w", "x", "y", "z", "{", "|", "}", "~" >>

\* the UTF-16 code unit of an ASCII character (control characters: below 32)
CharCode(c) ==
    IF \E k \in 1..Len(AsciiOrder) : AsciiOrder[k] = c
    THEN 31 + (CHOOSE k \in 1..Len(AsciiOrder) : AsciiOrder[k] = c)
    ELSE IF c = "\n" THEN 10 ELSE IF c = "\r" THEN 13 ELSE 9

\* a < b on strings: lexicographic by code unit
RECURSIVE Less(_, _)
Less(a, b) ==
    IF b = <<>> THEN FALSE
    ELSE IF a = <<>> THEN TRUE
    ELSE IF Head(a) = Head(b) THEN Less(Tail(a), Tail(b))
    ELSE CharCode(Head(a)) < CharCode(Head(b))

LowerChar(c) ==
    IF CharCode(c) \in 65..90 THEN AsciiOrder[CharCode(c) + 32 - 31] ELSE c

ToLowerCase(s) == [k \in 1..Len(s) |-> LowerChar(s[k])]

(***************************************************************************)
(* Front-matter splitter: parseFrontMatter                                  *)
(***************************************************************************)
Fence == <<"-", "-", "-">>
Quote == "\""

\* .replace(/^"|"$/g, ""): one leading and one trailing double quote
StripQuotes(v) ==
    LET a == IF v # <<>> /\ Head(v) = Quote THEN Tail(v) ELSE v
    IN  IF a # <<>> /\ a[Len(a)] = Quote THEN SubSeq(a, 1, Len(a) - 1) ELSE a

EmptyData == [k \in {} |-> <<>>]

\* data[key] = value keeping the value a key already has
Put_firstWins(data, key, value) ==
    [k \in DOMAIN data \cup {key} |-> IF k \in DOMAIN data THEN data[k] ELSE value]

Put(data, key, value) ==
    [k \in DOMAIN data \cup {key} |-> IF k = key THEN value ELSE data[k]]

\* the for loop of parseFrontMatter from 0-based line index n on;
\* end is the 0-based index of the closing fence, -1 when none was met
RECURSIVE ScanHeader(_, _, _)
ScanHeader(ls, n, data) ==
    IF ~(n < Len(ls)) THEN [data |-> data, end |-> -1]
    ELSE LET line == ls[n + 1]
             idx == IndexOf(line, ":")
         IN  IF Trim(line) = Fence THEN [data |-> data, end |-> n]
             ELSE IF idx <= 0 THEN ScanHeader(ls, n + 1, data)
             ELSE ScanHeader(ls, n + 1,
                      Put(data,
                          ToLowerCase(Trim(Slice(line, 0, idx))),
                          StripQuotes(Trim(SliceFrom(line, idx + 1)))))

\* parseFrontMatter with the closing fence kept at the head of the body
\* (lines.slice(end) for lines.slice(end + 1))
parseFrontMatter_bodyFromFence(text) ==
    IF ~StartsWith(text, Fence \o <<"\n">>) THEN [data |-> EmptyData, body |-> text]
    ELSE LET ls == Split(text, "\n")
             scan == ScanHeader(ls, 1, EmptyData)
         IN  IF scan.end = -1
             THEN [data |-> EmptyData, body |-> text]
             ELSE [data |-> scan.data,
                   body |-> Join(SubSeq(ls, scan.end + 1, Len(ls)), <<"\n">>)]

\* parseFrontMatter returning the pairs scanned so far when no closing fence
\* was met (data for {} in the fallback)
parseFrontMatter_keepsPairs(text) ==
    IF ~StartsWith(text, Fence \o <<"\n">>) THEN [data |-> EmptyData, body |-> text]
    ELSE LET ls == Split(text, "\n")
             scan == ScanHeader(ls, 1, EmptyData)
         IN  IF scan.end = -1
             THEN [data |-> scan.data, body |-> text]
             ELSE [data |-> scan.data,
                   body |-> Join(SubSeq(ls, scan.end + 2, Len(ls)), <<"\n">>)]

parseFrontMatter(text) ==
    IF ~StartsWith(text, Fence \o <<"\n">>) THEN [data |-> EmptyData, body |-> text]
    ELSE LET ls == Split(text, "\n")
             scan == ScanHeader(ls, 1, EmptyData)
         IN  IF scan.end = -1
             THEN [data |-> EmptyData, body |-> text]
             ELSE [data |-> scan.data,
                   body |-> Join(SubSeq(ls, scan.end + 2, Len(ls)), <<"\n">>)]

(***************************************************************************)
(* Specification of the front-matter splitter on bounded documents          *)
(***************************************************************************)
MaxFmLines == 3

NL == <<"\n">>

FmLineSamples ==
    { <<"k", ":", " ", "v">>,                          \* k: v
      <<"K", ":", "\"", "v", "\"">>,                   \* K:"v"
      <<"k", ":", " ", "\"", " ", "v", " ", "\"">>,    \* k: " v "
      <<"t", ":", "\"", "\"", "v", "\"", "\"">>,       \* t:""v""
      <<" ", ":", "v">>,                               \*  :v   (blank key)
      <<":", "v">>,                                    \* :v    (colon first)
      <<"t", ":", "v", ":", "v">>,                     \* t:v:v
      <<"v">>,                                         \* v     (no colon)
      Fence,                                           \* ---
      <<" ", "-", "-", "-", " ">> }                    \*  ---  (padded fence)

\* documents: a first line (an opening fence, a fence followed by a blank,
\* which is no opening fence for startsWith("---\n"), a heading line, the
\* empty line) and up to MaxFmLines more lines
FmDocs ==
    { Join(<<f>> \o t, NL) :
        f \in {Fence, <<"-", "-", "-", " ">>, <<"#", " ", "T">>, <<>>},
        t \in UNION { [1..n -> FmLineSamples] : n \in 0..MaxFmLines } }

ParseFrontMatter ==
    /\ fpc = "start"
    /\ fm' = Some(parseFrontMatter(raw))
    /\ fpc' = "parsed"
    /\ UNCHANGED raw

(***************************************************************************)
(* ECMAScript values: what JSON.parse can return and what the resolver      *)
(* builds.  Objects are functions from property names to values.  Each     *)
(* type keeps its payload in a field of its own, so that values of         *)
(* different types can be compared.                                         *)
(***************************************************************************)
Undefined == [t |-> "undefined"]
Null == [t |-> "null"]
Num(n) == [t |-> "number", n |-> n]
Str(s) == [t |-> "string", s |-> s]
Arr(a) == [t |-> "array", a |-> a]
Obj(o) == [t |-> "object", o |-> o]

\* ToBoolean, as applied by ||, ! and if
Truthy(x) ==
    CASE x.t = "undefined" -> FALSE
      [] x.t = "null" -> FALSE
      [] x.t = "boolean" -> x.b
      [] x.t = "number" -> x.n # 0
      [] x.t = "string" -> x.s # <<>>
      [] OTHER -> TRUE

\* a || b
OrElse(a, b) == IF Truthy(a) THEN a ELSE b

(***************************************************************************)
(* Digest sectionizer: clean and parseDigest                                *)
(***************************************************************************)
Digits == {"0", "1", "2", "3", "4", "5", "6", "7", "8", "9"}

RECURSIVE LeadingDigits(_)
LeadingDigits(s) ==
    IF s # <<>> /\ Head(s) \in Digits THEN 1 + LeadingDigits(Tail(s)) ELSE 0

\* the markers are left in place
clean_trimOnly(line) == Trim(line)

clean(line) ==
    LET \* .replace(/^[-*]\s*/, "")
        StripBullet(s) ==
            IF s # <<>> /\ Head(s) \in {"-", "*"} THEN TrimStart(Tail(s)) ELSE s
        \* .replace(/^\d+\.\s*/, "")
        StripNumber(s) ==
            LET n == LeadingDigits(s)
            IN  IF n >= 1 /\ Len(s) > n /\ s[n + 1] = "."
                THEN TrimStart(SliceFrom(s, n + 1))
                ELSE s
        \* .replace(/^>\s*/, "")
        StripQuoteMark(s) ==
            IF s # <<>> /\ Head(s) = ">" THEN TrimStart(Tail(s)) ELSE s
    IN  Trim(StripQuoteMark(StripNumber(StripBullet(line))))

\* no line counts as numbered
IsNumbered_never(line) == FALSE

\* /^\d+\./.test(line) and /^[-*]\s/.test(line)
IsNumbered(line) ==
    LET n == LeadingDigits(line) IN n >= 1 /\ Len(line) > n /\ line[n + 1] = "."

IsBulleted(line) ==
    Len(line) >= 2 /\ line[1] \in {"-", "*"} /\ line[2] \in Whitespace

\* raw.split(/\r?\n/): a CR right before a LF belongs to the separator
SplitLines(s) ==
    LET parts == Split(s, "\n")
    IN  [k \in 1..Len(parts) |->
            IF k < Len(parts) /\ EndsWith(parts[k], <<"\r">>)
            THEN SubSeq(parts[k], 1, Len(parts[k]) - 1)
            ELSE parts[k]]

MarkerHighlight == <<"U+4ECA", "U+65E5", "U+4EAE", "U+70B9">>
MarkerTrend == <<"U+8D8B", "U+52BF", "U+89C2", "U+5BDF">>
MarkerFocus == <<"U+91CD", "U+70B9", "U+5173", "U+6CE8">>
Arrow == <<"U+2192">>
Placeholder ==
    <<"U+4ECA", "U+65E5", "U+6838", "U+5FC3", "U+66F4", "U+65B0", "U+5DF2",
      "U+751F", "U+6210", "U+FF0C", "U+4F46", "U+6458", "U+8981", "U+6BB5",
      "U+8FD8", "U+672A", "U+7ED3", "U+6784", "U+5316", "U+3002", "U+53EF",
      "U+76F4", "U+63A5", "U+67E5", "U+770B", "U+4E0B", "U+65B9", " ", "t",
      "o", "p", "i", "c", " ", "U+901F", "U+8BFB", "U+3002">>

\* the post-condition step left out
WithPlaceholder_none(hl) == hl

WithPlaceholder(hl) == IF hl = <<>> THEN <<Placeholder>> ELSE hl

\* the text of the open entry after a line: the texts run together
JoinedText_noSpace(current, text) == current \o text

\* currentFocus.text ? `${currentFocus.text} ${text}` : text
JoinedText(current, text) == IF current # <<>> THEN current \o <<" ">> \o text ELSE text

\* the three tests in the opposite order
MarkerOf_focusFirst(line) ==
    IF Includes(line, MarkerFocus) THEN "focus"
    ELSE IF Includes(line, MarkerTrend) THEN "trend"
    ELSE IF Includes(line, MarkerHighlight) THEN "highlight"
    ELSE "none"

\* the first of the three line.includes(...) tests that succeeds
MarkerOf(line) ==
    IF Includes(line, MarkerHighlight) THEN "highlight"
    ELSE IF Includes(line, MarkerTrend) THEN "trend"
    ELSE IF Includes(line, MarkerFocus) THEN "focus"
    ELSE "none"

\* no line is taken for a table row or a rule
IsTableOrRule_never(line) == FALSE

\* line.startsWith("---") || line.startsWith("|")
IsTableOrRule(line) == StartsWith(line, Fence) \/ StartsWith(line, <<"|">>)

\* the pending entry is dropped
Flushed_dropsPending(list, current) == list

\* if (currentFocus) focus.push(currentFocus)
Flushed(list, current) == list \o current

DigestStart ==
    /\ dpc = "start"
    /\ LET text == OrElse(issue.digest, Str(<<>>))
       IN  IF text.t # "string"
           THEN dpc' = "raised" /\ lines' = <<>>      \* raw.split is not a function
           ELSE dpc' = "loop" /\ lines' = SplitLines(text.s)
    /\ pos' = 0
    /\ mode' = "none"
    /\ currentFocus' = None
    /\ highlights' = <<>>
    /\ trends' = <<>>
    /\ focus' = <<>>
    /\ UNCHANGED issue

\* one iteration of the for loop, on lines[pos]
DigestLine ==
    /\ dpc = "loop"
    /\ pos < Len(lines)
    /\ LET line == Trim(lines[pos + 1])
           text == clean(line)
       IN  IF line = <<>>
           THEN UNCHANGED <<mode, currentFocus, highlights, trends, focus>>
           ELSE IF MarkerOf(line) = "highlight"
           THEN /\ mode' = "highlight"
                /\ UNCHANGED <<currentFocus, highlights, trends, focus>>
           ELSE IF MarkerOf(line) = "trend"
           THEN /\ focus' = Flushed(focus, currentFocus)
                /\ currentFocus' = None
                /\ mode' = "trend"
                /\ UNCHANGED <<highlights, trends>>
           ELSE IF MarkerOf(line) = "focus"
           THEN /\ focus' = Flushed(focus, currentFocus)
                /\ currentFocus' = None
                /\ mode' = "focus"
                /\ UNCHANGED <<highlights, trends>>
           ELSE IF IsTableOrRule(line)
           THEN UNCHANGED <<mode, currentFocus, highlights, trends, focus>>
           ELSE IF mode = "highlight"
           THEN /\ highlights' =
                       IF ~StartsWith(line, <<"#", "#">>) /\ text # <<>>
                       THEN Append(highlights, text)
                       ELSE highlights
                /\ UNCHANGED <<mode, currentFocus, trends, focus>>
           ELSE IF mode = "trend"
           THEN /\ trends' =
                       IF (IsNumbered(line) \/ IsBulleted(line)) /\ text # <<>>
                       THEN Append(trends, text)
                       ELSE trends
                /\ UNCHANGED <<mode, currentFocus, highlights, focus>>
           ELSE IF mode = "focus"
           THEN IF StartsWith(line, <<"#", "#", "#">>)
                THEN /\ focus' = Flushed(focus, currentFocus)
                     /\ currentFocus' =
                            Some([title |-> Trim(TrimStart(SliceFrom(line, 3))),
                                  text |-> <<>>])
                     /\ UNCHANGED <<mode, highlights, trends>>
                ELSE IF StartsWith(line, Arrow) \/ currentFocus = None \/ text = <<>>
                THEN UNCHANGED <<mode, currentFocus, highlights, trends, focus>>
                ELSE /\ currentFocus' =
                            Some([title |-> currentFocus[1].title,
                                  text |-> JoinedText(currentFocus[1].text, text)])
                     /\ UNCHANGED <<mode, highlights, trends, focus>>
           ELSE UNCHANGED <<mode, currentFocus, highlights, trends, focus>>
    /\ pos' = pos + 1
    /\ UNCHANGED <<issue, lines, dpc>>

\* after the loop: flush the pending entry, insert the placeholder, return
DigestReturn ==
    /\ dpc = "loop"
    /\ pos = Len(lines)
    /\ focus' = Flushed(focus, currentFocus)
    /\ highlights' = WithPlaceholder(highlights)
    /\ dpc' = "done"
    /\ UNCHANGED <<issue, lines, pos, mode, currentFocus, trends>>

(***************************************************************************)
(* Specification of the digest sectionizer on bounded narratives            *)
(***************************************************************************)
MaxDigestLines == 3

DigestLineSamples ==
    { <<"#", "#", " ">> \o MarkerHighlight,        \* heading carrying the highlights marker
      MarkerTrend,                                \* the trend marker alone
      <<"#", "#", "#", " ">> \o MarkerFocus,       \* heading carrying the focus marker
      MarkerTrend \o <<" ">> \o MarkerHighlight,   \* two markers on one line
      MarkerFocus \o MarkerTrend,                  \* the focus and the trend marker
      <<"#", "#", "#", " ", "T">>,                \* ### T
      <<"-", " ", "a">>,                          \* - a
      <<"1", ".", " ", "b">>,                     \* 1. b
      <<"1", ".">>,                               \* 1.    (number with no text)
      <<"a">>,                                    \* a
      Arrow \o <<" ", "a">>,                      \* arrow-prefixed line
      <<"|", " ", "a">>,                          \* | a   (table row)
      <<"|", " ">> \o MarkerTrend,                 \* table row carrying the trend marker
      Fence,                                      \* ---   (rule)
      <<>>,                                       \* empty line
      <<">", " ", "a", "\r">>,                    \* > a   ending in CR
      <<"-">> }                                   \* -     (bullet with no text)

\* a longer narrative: the focus marker, ### Item A, two plain lines,
\* ### Item B
FocusNarrative ==
    Join(<<MarkerFocus,
           <<"#", "#", "#", " ", "I", "t", "e", "m", " ", "A">>,
           <<"x", "1">>,
           <<"x", "2">>,
           <<"#", "#", "#", " ", "I", "t", "e", "m", " ", "B">>>>, NL)

\* an issue's digest: absent, a narrative text, or (from a snapshot that was
\* accepted) a value that is no string
DigestValues ==
    {Undefined, Num(1), Str(FocusNarrative)}
        \cup { Str(Join(ls, NL)) :
                 ls \in UNION { [1..n -> DigestLineSamples] : n \in 1..MaxDigestLines } }

(***************************************************************************)
(* The issues/ directory tree.  fs.entries is the listing of issues/ in the *)
(* order readdirSync returns it; an entry that is a directory holds its     *)
(* issue-data.json (adapter), its digest.md, and the listings of papers/    *)
(* and assets/figures/ (empty when the directory is missing).               *)
(***************************************************************************)
EntryAt(name) == CHOOSE e \in Range(fs.entries) : e.name = name

(***************************************************************************)
(* Regular expressions of the resolver                                      *)
(***************************************************************************)
LineTerminators == {"\n", "\r"}

\* positions are 0-based offsets into the text
AtLineStart(text, p) == p = 0 \/ text[p] \in LineTerminators

RECURSIVE WsRun(_, _)
WsRun(text, q) ==
    IF q < Len(text) /\ text[q + 1] \in Whitespace THEN 1 + WsRun(text, q + 1) ELSE 0

\* the number of characters from q to the end of its line
RECURSIVE LineLen(_, _)
LineLen(text, q) ==
    IF q < Len(text) /\ text[q + 1] \notin LineTerminators
    THEN 1 + LineLen(text, q + 1)
    ELSE 0

\* /^\d{4}-\d{2}-\d{2}$/.test(entry)
IsDateKey(entry) ==
    /\ Len(entry) = 10
    /\ \A k \in {1, 2, 3, 4, 6, 7, 9, 10} : entry[k] \in Digits
    /\ entry[5] = "-"
    /\ entry[8] = "-"

\* "?(.+?)"?$ from offset q: the lazy group ends before a closing quote
LazyGroup(text, q) ==
    LET n == LineLen(text, q)
    IN  IF n = 0 THEN None
        ELSE IF n >= 2 /\ text[q + n] = Quote THEN Some(Slice(text, q, q + n - 1))
        ELSE Some(Slice(text, q, q + n))

\* \s*"?(.+?)"?$ from offset q with the greedy \s* taking j characters,
\* backtracking to fewer
RECURSIVE TitleFrom(_, _, _)
TitleFrom(text, q, j) ==
    LET at == q + j
        quoted == IF at < Len(text) /\ text[at + 1] = Quote
                  THEN LazyGroup(text, at + 1)
                  ELSE None
        bare == LazyGroup(text, at)
    IN  IF quoted # None THEN quoted
        ELSE IF bare # None THEN bare
        ELSE IF j = 0 THEN None
        ELSE TitleFrom(text, q, j - 1)

TitleTag == <<"t", "i", "t", "l", "e", ":">>

\* digest.match(/^title:\s*"?(.+?)"?$/m)?.[1], scanning from offset p
RECURSIVE DigestTitleFrom(_, _)
DigestTitleFrom(text, p) ==
    IF p + Len(TitleTag) > Len(text) THEN None
    ELSE LET q == p + Len(TitleTag)
             m == IF AtLineStart(text, p) /\ Slice(text, p, q) = TitleTag
                  THEN TitleFrom(text, q, WsRun(text, q))
                  ELSE None
         IN  IF m # None THEN m ELSE DigestTitleFrom(text, p + 1)

\* \s+(.+)$ from offset q with the greedy \s+ taking j >= 1 characters
RECURSIVE HeadingFrom(_, _, _)
HeadingFrom(text, q, j) ==
    IF j < 1 THEN None
    ELSE LET n == LineLen(text, q + j)
         IN  IF n >= 1 THEN Some(Slice(text, q + j, q + j + n))
             ELSE HeadingFrom(text, q, j - 1)

\* body.match(/^#\s+(.+)$/m)?.[1], scanning from offset p
RECURSIVE BodyHeadingFrom(_, _)
BodyHeadingFrom(text, p) ==
    IF p + 1 > Len(text) THEN None
    ELSE LET m == IF AtLineStart(text, p) /\ text[p + 1] = "#"
                  THEN HeadingFrom(text, p + 1, WsRun(text, p + 1))
                  ELSE None
         IN  IF m # None THEN m ELSE BodyHeadingFrom(text, p + 1)

\* .replace(/\[|\]/g, "")
RECURSIVE RemoveBrackets(_)
RemoveBrackets(s) ==
    IF s = <<>> THEN <<>>
    ELSE IF Head(s) \in {"[", "]"} THEN RemoveBrackets(Tail(s))
    ELSE <<Head(s)>> \o RemoveBrackets(Tail(s))

(***************************************************************************)
(* Array.prototype: sort, filter, find                                      *)
(***************************************************************************)
\* Array.prototype.sort on names: insertion sort, each element going in front
\* of the first one it is ordered before. descending is the comparator
\* (a, b) => (a < b ? 1 : -1); otherwise the default order of sort()
SortBy(q, descending) ==
    LET before(a, b) == IF descending THEN ~Less(a, b) ELSE Less(a, b)
        insert(x, sorted) ==
            LET at == IF \E k \in 1..Len(sorted) : before(x, sorted[k])
                      THEN CHOOSE k \in 1..Len(sorted) :
                               /\ before(x, sorted[k])
                               /\ \A j \in 1..(k - 1) : ~before(x, sorted[j])
                      ELSE Len(sorted) + 1
            IN  SubSeq(sorted, 1, at - 1) \o <<x>> \o SubSeq(sorted, at, Len(sorted))
        S[k \in 0..Len(q)] == IF k = 0 THEN <<>> ELSE insert(q[k], S[k - 1])
    IN  S[Len(q)]

\* Array.prototype.filter: the elements at the positions the callback
\* passes, in order
Filter(q, passing) ==
    LET F[k \in 0..Len(q)] ==
            IF k = 0 THEN <<>>
            ELSE IF k \in passing THEN Append(F[k - 1], q[k])
            ELSE F[k - 1]
    IN  F[Len(q)]

\* Array.prototype.find: the first element at a position the callback
\* passes, as an optional value
Find(q, passing) ==
    LET hits == Filter(q, passing) IN IF hits = <<>> THEN None ELSE Some(Head(hits))

(***************************************************************************)
(* Paper parser: parsePaper                                                 *)
(***************************************************************************)
ExtMd == <<".", "m", "d">>
NoSummary == <<"N", "o", " ", "s", "u", "m", "m", "a", "r", "y", ".">>

\* data.key: the value of a header pair, undefined when the key is absent
Field(data, key) == IF key \in DOMAIN data THEN Str(data[key]) ELSE Undefined

\* an optional text as a value
Matched(m) == IF m = None THEN Undefined ELSE Str(m[1])

\* the id cut at the first dot of the file name
PaperId_stem(file) ==
    IF IndexOf(file, ".") = -1 THEN file ELSE Slice(file, 0, IndexOf(file, "."))

\* file.replace(/\.md$/, "")
PaperId(file) ==
    IF EndsWith(file, ExtMd) THEN SubSeq(file, 1, Len(file) - Len(ExtMd)) ELSE file

\* the summary looked for after the first body line, as if that line were
\* the title
Summary_afterFirstLine(body) ==
    LET trimmed == [k \in 1..Len(Split(body, "\n")) |-> Trim(Split(body, "\n")[k])]
        isProse(line) ==
            line # <<>> /\ ~StartsWith(line, <<"#">>) /\ ~StartsWith(line, <<"-">>)
    IN  OrElse(Matched(Find(trimmed, {k \in 2..Len(trimmed) : isProse(trimmed[k])})),
               Str(NoSummary))

Summary(body) ==
    LET trimmed == [k \in 1..Len(Split(body, "\n")) |-> Trim(Split(body, "\n")[k])]
        isProse(line) ==
            line # <<>> /\ ~StartsWith(line, <<"#">>) /\ ~StartsWith(line, <<"-">>)
    IN  OrElse(Matched(Find(trimmed, {k \in 1..Len(trimmed) : isProse(trimmed[k])})),
               Str(NoSummary))

\* the tags without the final .filter(Boolean)
Tags_keepsEmpty(tagsRaw) ==
    LET pieces == Split(RemoveBrackets(tagsRaw), ",")
        tags == [k \in 1..Len(pieces) |-> StripQuotes(Trim(pieces[k]))]
    IN  Arr([k \in 1..Len(tags) |-> Str(tags[k])])

Tags(tagsRaw) ==
    LET pieces == Split(RemoveBrackets(tagsRaw), ",")
        tags == [k \in 1..Len(pieces) |-> StripQuotes(Trim(pieces[k]))]
        nonEmpty(tag) == tag # <<>>
        kept == Filter(tags, {k \in 1..Len(tags) : nonEmpty(tags[k])})
    IN  Arr([k \in 1..Len(kept) |-> Str(kept[k])])

\* the image of an item: the first figure whose name starts with "<id>."
Image(date, id) ==
    LET isFigure(name) == StartsWith(name, id \o <<".">>)
        figures == EntryAt(date).figures
        found == Find(figures, {k \in 1..Len(figures) : isFigure(figures[k])})
    IN  IF found = None THEN Undefined
        ELSE Str(<<"/", "i", "s", "s", "u", "e", "s", "/">> \o date
                 \o <<"/", "a", "s", "s", "e", "t", "s", "/",
                      "f", "i", "g", "u", "r", "e", "s", "/">>
                 \o found[1])

\* fs.readFileSync(full, "utf-8")
ReadPaper(date, file) ==
    (CHOOSE f \in Range(EntryAt(date).papers) : f.name = file).text

\* the Paper built from the id and the split { data, body } of the file
PaperOf(date, id, split) ==
    LET data == split.data
        body == split.body
    IN
    Obj([id |-> Str(id),
         title |-> OrElse(OrElse(Field(data, <<"t", "i", "t", "l", "e">>),
                                 Matched(BodyHeadingFrom(body, 0))),
                          Str(id)),
         authors |-> OrElse(Field(data, <<"a", "u", "t", "h", "o", "r", "s">>),
                            Str(<<"U", "n", "k", "n", "o", "w", "n", " ",
                                  "a", "u", "t", "h", "o", "r", "s">>)),
         summary |-> Summary(body),
         tags |-> Tags(OrElse(Field(data, <<"t", "a", "g", "s">>), Str(<<>>)).s),
         url |-> OrElse(OrElse(Field(data, <<"u", "r", "l">>),
                               Field(data, <<"l", "i", "n", "k">>)),
                        Str(<<>>)),
         markdown |-> Str(Trim(body)),
         image |-> Image(date, id)])

parsePaper(date, file) ==
    PaperOf(date, PaperId(file), parseFrontMatter(ReadPaper(date, file)))

(***************************************************************************)
(* Issue resolver: issueDates, parseIssueFromFs, parseIssueFromAdapter,     *)
(* getIssues, getIssue, getPaper                                            *)
(***************************************************************************)

\* the names of directory entries, in directory order
Names(entries) == [k \in 1..Len(entries) |-> entries[k].name]

\* .filter((entry) => /^\d{4}-\d{2}-\d{2}$/.test(entry) && ...isDirectory())
DateDirs(entries) ==
    Filter(entries, {k \in 1..Len(entries) :
                        IsDateKey(entries[k].name) /\ entries[k].isDir})

issueDates ==
    IF ~fs.exists THEN <<>>   \* !fs.existsSync(ISSUES_DIR)
    ELSE SortBy(Names(DateDirs(fs.entries)), TRUE)   \* (a, b) => (a < b ? 1 : -1)

\* fs.existsSync(digestPath) ? fs.readFileSync(digestPath, "utf-8") : ""
ReadDigest(entry) == IF entry.digest # None THEN entry.digest[1] ELSE <<>>

\* the markdown files in the order of the listing, .sort() left out
PaperFileNames_unsorted(papers) ==
    Names(Filter(papers, {k \in 1..Len(papers) : EndsWith(papers[k].name, ExtMd)}))

\* readdirSync(papersDir).filter((name) => name.endsWith(".md")).sort()
PaperFileNames(papers) ==
    SortBy(Names(Filter(papers, {k \in 1..Len(papers) :
                                    EndsWith(papers[k].name, ExtMd)})),
           FALSE)   \* the default order of .sort()

\* the Issue built from the digest text and the sorted paper files
IssueOf(date, digest, paperFiles) ==
    Obj([date |-> Str(date),
         title |-> OrElse(Matched(DigestTitleFrom(digest, 0)), Str(<<"A", "I", " ", "D", "a", "i", "l", "y", " ">> \o date)),
         digest |-> Str(digest),
         papers |-> Arr([k \in 1..Len(paperFiles) |-> parsePaper(date, paperFiles[k])])])

parseIssueFromFs(date) ==
    IssueOf(date, ReadDigest(EntryAt(date)), PaperFileNames(EntryAt(date).papers))

\* JSON.parse: the text of issue-data.json is either no JSON (SyntaxError)
\* or the JSON text of a value
JsonParse(content) ==
    IF content.t = "garbage" THEN [ok |-> FALSE] ELSE [ok |-> TRUE, v |-> content.j]

\* x.key for a value that is neither null nor undefined
Prop(x, key) ==
    IF x.t = "object" /\ key \in DOMAIN x.o THEN x.o[key] ELSE Undefined

IsArray(x) == x.t = "array"

\* the shape check without its Array.isArray(parsed.papers) half
parseIssueFromAdapter_noPapersCheck(date, content) ==
    LET parsed == JsonParse(content)
    IN  IF ~parsed.ok THEN Null
        ELSE IF parsed.v.t = "null" THEN Null
        ELSE IF ~Truthy(Prop(parsed.v, "date")) THEN Null
        ELSE parsed.v

\* null stands for whatever the try block could not return: a SyntaxError
\* of JSON.parse, a TypeError of parsed.date on null, a failed shape check
parseIssueFromAdapter(date, content) ==
    LET parsed == JsonParse(content)
    IN  IF ~parsed.ok THEN Null
        ELSE IF parsed.v.t = "null" THEN Null
        ELSE IF ~Truthy(Prop(parsed.v, "date")) \/ ~IsArray(Prop(parsed.v, "papers"))
        THEN Null
        ELSE parsed.v

\* the callback with the raw files tried first and the snapshot second
IssueFor_rawFirst(date) ==
    LET adapter == EntryAt(date).adapter
        adapted == IF adapter # None THEN parseIssueFromAdapter(date, adapter[1]) ELSE Null
    IN  IF EntryAt(date).papers # <<>> THEN parseIssueFromFs(date)
        ELSE IF Truthy(adapted) THEN adapted
        ELSE parseIssueFromFs(date)

\* the callback of issueDates().map in getIssues
IssueFor(date) ==
    LET adapter == EntryAt(date).adapter
        adapted == IF adapter # None THEN parseIssueFromAdapter(date, adapter[1]) ELSE Null
    IN  IF Truthy(adapted) THEN adapted ELSE parseIssueFromFs(date)

\* dates.map((date) => ...)
MapIssues(dates) == [k \in 1..Len(dates) |-> IssueFor(dates[k])]

getIssues == MapIssues(issueDates)

Return(v) == [t |-> "return", v |-> v]
Throw == [t |-> "throw"]

\* issues.find((issue) => issue.date === date) ?? null
FindIssue(issues, date) ==
    LET found == Find(issues, {k \in 1..Len(issues) :
                                  Prop(issues[k], "date") = Str(date)})
    IN  IF found = None THEN Null ELSE found[1]

getIssue(date) == FindIssue(getIssues, date)

\* issue.papers.find((item) => item.id === paperId): reading item.id of a
\* null item raises a TypeError
RECURSIVE FindPaper(_, _)
FindPaper(papers, paperId) ==
    IF papers = <<>> THEN Return(Undefined)
    ELSE IF Head(papers).t \in {"null", "undefined"} THEN Throw
    ELSE IF Prop(Head(papers), "id") = Str(paperId) THEN Return(Head(papers))
    ELSE FindPaper(Tail(papers), paperId)

\* the body of getPaper once getIssue(date) has returned found
PaperIn(found, paperId) ==
    LET paper == FindPaper(Prop(found, "papers").a, paperId)
    IN  IF ~Truthy(found) THEN Return(Null)
        ELSE IF paper.t = "throw" THEN Throw
        ELSE IF ~Truthy(paper.v) THEN Return(Null)
        ELSE Return(Obj([issue |-> found, paper |-> paper.v]))

getPaper(date, paperId) == PaperIn(getIssue(date), paperId)

(***************************************************************************)
(* The data pipeline writes the tree (docs/architecture-v2.md, Data flow);  *)
(* the pages call the resolver.  A write never replaces a file, and at most *)
(* MaxFiles entries and files are written in all.                           *)
(***************************************************************************)
MaxFiles == 3

Date0210 == <<"2", "0", "2", "6", "-", "0", "2", "-", "1", "0">>
Date0212 == <<"2", "0", "2", "6", "-", "0", "2", "-", "1", "2">>
Notes == <<"n", "o", "t", "e", "s">>

Json(v) == [t |-> "json", j |-> v]

IdA == <<"a">>

\* contents of issue-data.json
SnapshotContents ==
    { [t |-> "garbage"],                                         \* no JSON at all
      Json(Null),                                        \* null
      Json(Num(5)),                                      \* 5
      Json(Str(<<"s">>)),                                \* "s"
      Json(Arr(<<>>)),                                   \* []
      Json(Obj([title |-> Str(<<"S">>)])),               \* no date, no papers
      Json(Obj([date |-> Str(<<>>), papers |-> Arr(<<>>)])),          \* empty date
      Json(Obj([date |-> Str(Date0212), papers |-> Str(<<"s">>)])),   \* papers no array
      Json(Obj([date |-> Num(7), papers |-> Arr(<<>>)])),             \* date no string
      Json(Obj([date |-> Str(Date0210), title |-> Str(<<"S">>), papers |-> Arr(<<>>)])),
      Json(Obj([date |-> Str(Date0212), title |-> Str(<<"S">>), papers |-> Arr(<<>>)])),
      Json(Obj([date |-> Str(Date0212), papers |-> Arr(<<Null>>)])),
      Json(Obj([date |-> Str(Date0212),
                papers |-> Arr(<<Obj([id |-> Str(IdA)])>>)])) }

\* papers/ files: a document with a header, a document without one, an empty
\* document whose name has two dots, and a
\* file that is no markdown document
PaperFiles ==
    { [name |-> <<"a", ".", "m", "d">>,
       text |-> <<"-", "-", "-", "\n", "t", "i", "t", "l", "e", ":", " ", "T", "\n",
                  "t", "a", "g", "s", ":", " ", "\"", "[", "x", ",", " ", "y", "]", "\"", "\n",
                  "-", "-", "-", "\n", "#", " ", "H", "\n", "s">>],
      [name |-> <<"b", ".", "m", "d">>,
       text |-> <<"#", " ", "H", "\n", "-", " ", "l", "\n", "s">>],
      [name |-> <<"a", ".", "x", ".", "m", "d">>,
       text |-> <<>>],
      [name |-> <<"a", ".", "t", "x", "t">>,
       text |-> <<"s">>] }

FileCount ==
    LET N[k \in 0..Len(fs.entries)] ==
            IF k = 0 THEN 0
            ELSE LET e == fs.entries[k]
                 IN  N[k - 1] + 1 + Len(e.adapter) + Len(e.digest)
                         + Len(e.papers) + Len(e.figures)
    IN  N[Len(fs.entries)]

\* the entries the pipeline writes into: the issue directories
IssueSlots ==
    { k \in 1..Len(fs.entries) : IsDateKey(fs.entries[k].name) /\ fs.entries[k].isDir }

CreateIssuesDir ==
    /\ ~fs.exists
    /\ fs' = [fs EXCEPT !.exists = TRUE]
    /\ result' = None

AddEntry ==
    /\ fs.exists
    /\ FileCount < MaxFiles
    /\ \E kind \in   \* three issue directories, a directory that is no issue,
                   \* and a regular file named like an issue
          { [name |-> n, isDir |-> TRUE] :
              n \in {<<"2", "0", "2", "6", "-", "0", "1", "-", "3", "1">>,
                     Date0210, Date0212, Notes} }
              \cup { [name |-> <<"2", "0", "2", "6", "-", "0", "2", "-", "1", "1">>,
                       isDir |-> FALSE] } :
          /\ \A e \in Range(fs.entries) : e.name # kind.name
          /\ fs' = [fs EXCEPT !.entries =
                        Append(@, [name |-> kind.name, isDir |-> kind.isDir,
                                   adapter |-> None, digest |-> None,
                                   papers |-> <<>>, figures |-> <<>>])]
    /\ result' = None

WriteAdapter ==
    /\ FileCount < MaxFiles
    /\ \E k \in IssueSlots, content \in SnapshotContents :
          /\ fs.entries[k].adapter = None
          /\ fs' = [fs EXCEPT !.entries[k].adapter = Some(content)]
    /\ result' = None

WriteDigest ==
    /\ FileCount < MaxFiles
    /\ \E k \in IssueSlots,
          text \in { <<"t", "i", "t", "l", "e", ":", " ", "\"", "D", "\"", "\n", "x">>,
                     <<"x">> } :   \* digest.md with and without a title line
          /\ fs.entries[k].digest = None
          /\ fs' = [fs EXCEPT !.entries[k].digest = Some(text)]
    /\ result' = None

WritePaper ==
    /\ FileCount < MaxFiles
    /\ \E k \in IssueSlots, file \in PaperFiles :
          /\ \A f \in Range(fs.entries[k].papers) : f.name # file.name
          /\ fs' = [fs EXCEPT !.entries[k].papers = Append(@, file)]
    /\ result' = None

WriteFigure ==
    /\ FileCount < MaxFiles
    /\ \E k \in IssueSlots, name \in { <<"a", ".", "p", "n", "g">> } :
          /\ name \notin Range(fs.entries[k].figures)
          /\ fs' = [fs EXCEPT !.entries[k].figures = Append(@, name)]
    /\ result' = None

\* the requests of the pages: dates and ids come from the route.  result
\* holds the answer to the last request made of the tree as it is now.
QueryDates == {Date0210, Date0212, Notes}

CallGetIssues ==
    /\ result = None
    /\ result' = Some([call |-> [op |-> "getIssues"], ret |-> Return(Arr(getIssues))])
    /\ UNCHANGED fs

CallGetIssue ==
    /\ result = None
    /\ \E date \in QueryDates :
          result' = Some([call |-> [op |-> "getIssue", date |-> date],
                          ret |-> Return(getIssue(date))])
    /\ UNCHANGED fs

CallGetPaper ==
    /\ result = None
    /\ \E date \in QueryDates, paperId \in {IdA, <<"b">>} :
          result' = Some([call |-> [op |-> "getPaper", date |-> date, paperId |-> paperId],
                          ret |-> getPaper(date, paperId)])
    /\ UNCHANGED fs

(***************************************************************************)
(* Markdown block parser: parseBlocks                                       *)
(***************************************************************************)
Backticks == <<"U+0060", "U+0060", "U+0060">>
NoteTag == <<">", " ", "[", "!", "N", "O", "T", "E", "]">>
FigureTag == <<"*", "F", "i", "g", "u", "r", "e", ":">>
ListMark == <<"-", " ">>

\* .replace(/\*\*/g, "")
RECURSIVE RemoveBold(_)
RemoveBold(s) ==
    IF Len(s) < 2 THEN s
    ELSE IF s[1] = "*" /\ s[2] = "*" THEN RemoveBold(SliceFrom(s, 2))
    ELSE <<s[1]>> \o RemoveBold(Tail(s))

\* the code loop taking one line at most
CodeRun_oneLine(ls, n) ==
    IF n < Len(ls) /\ ~StartsWith(Trim(ls[n + 1]), Backticks) THEN n + 1 ELSE n

\* the inner while loops, from 0-based index n: the index they stop at
RECURSIVE CodeRun(_, _)
CodeRun(ls, n) ==
    IF n < Len(ls) /\ ~StartsWith(Trim(ls[n + 1]), Backticks)
    THEN CodeRun(ls, n + 1)
    ELSE n

\* the list loop taking one line
ListRun_oneLine(ls, n) == n + 1

RECURSIVE ListRun(_, _)
ListRun(ls, n) ==
    IF n < Len(ls) /\ StartsWith(Trim(ls[n + 1]), ListMark)
    THEN ListRun(ls, n + 1)
    ELSE n

\* the list branch going on at the last line of its run
AfterList_stepsBack(stop) == stop - 1

\* the list branch with the i += 1 of the other branches added after its loop
AfterList_stepsOver(stop) == stop + 1

\* the list branch ends in continue with i where its loop stopped
AfterList(stop) == stop

\* the 0-based indices from..to-1 in order
Indices(from, to) == [k \in 1..(to - from) |-> from + k - 1]

\* the quote rule tried before the callout rule
ScanBlock_quoteFirst(ls, n) ==
    LET line == Trim(ls[n + 1])
        one(kind, text) ==
            [emit |-> <<[kind |-> kind, text |-> text]>>,
             src |-> <<<<n>>>>,
             next |-> n + 1]
    IN  IF line = <<>> THEN [emit |-> <<>>, src |-> <<>>, next |-> n + 1]
        ELSE IF StartsWith(line, <<"#", "#", "#", " ">>) THEN one("h3", SliceFrom(line, 4))
        ELSE IF StartsWith(line, <<"#", "#", " ">>) THEN one("h2", SliceFrom(line, 3))
        ELSE IF StartsWith(line, <<">", " ">>) THEN one("quote", SliceFrom(line, 2))
        ELSE IF StartsWith(line, NoteTag) THEN one("callout", Trim(SliceFrom(line, Len(NoteTag))))
        ELSE IF StartsWith(line, Backticks)
        THEN LET stop == CodeRun(ls, n + 1)
             IN  [emit |-> <<[kind |-> "code",
                              text |-> Join(SubSeq(ls, n + 2, stop), NL)]>>,
                  src |-> <<Indices(n + 1, stop)>>,
                  next |-> stop + 1]
        ELSE IF StartsWith(line, FigureTag)
        THEN one("figcaption", Trim(SliceFrom(line, Len(FigureTag))))
        ELSE IF StartsWith(line, ListMark)
        THEN LET stop == ListRun(ls, n)
             IN  [emit |-> <<[kind |-> "list",
                              items |-> [k \in 1..(stop - n) |->
                                            SliceFrom(Trim(ls[n + k]), 2)]]>>,
                  src |-> <<Indices(n, stop)>>,
                  next |-> AfterList(stop)]
        ELSE one("p", RemoveBold(line))

\* one iteration of the outer while loop at 0-based index n: the blocks
\* pushed (none or one), the lines whose text went into each, the next index
ScanBlock(ls, n) ==
    LET line == Trim(ls[n + 1])
        one(kind, text) ==
            [emit |-> <<[kind |-> kind, text |-> text]>>,
             src |-> <<<<n>>>>,
             next |-> n + 1]
    IN  IF line = <<>> THEN [emit |-> <<>>, src |-> <<>>, next |-> n + 1]
        ELSE IF StartsWith(line, <<"#", "#", "#", " ">>) THEN one("h3", SliceFrom(line, 4))
        ELSE IF StartsWith(line, <<"#", "#", " ">>) THEN one("h2", SliceFrom(line, 3))
        ELSE IF StartsWith(line, NoteTag) THEN one("callout", Trim(SliceFrom(line, Len(NoteTag))))
        ELSE IF StartsWith(line, <<">", " ">>) THEN one("quote", SliceFrom(line, 2))
        ELSE IF StartsWith(line, Backticks)
        THEN LET stop == CodeRun(ls, n + 1)
             IN  [emit |-> <<[kind |-> "code",
                              text |-> Join(SubSeq(ls, n + 2, stop), NL)]>>,
                  src |-> <<Indices(n + 1, stop)>>,
                  next |-> stop + 1]
        ELSE IF StartsWith(line, FigureTag)
        THEN one("figcaption", Trim(SliceFrom(line, Len(FigureTag))))
        ELSE IF StartsWith(line, ListMark)
        THEN LET stop == ListRun(ls, n)
             IN  [emit |-> <<[kind |-> "list",
                              items |-> [k \in 1..(stop - n) |->
                                            SliceFrom(Trim(ls[n + k]), 2)]]>>,
                  src |-> <<Indices(n, stop)>>,
                  next |-> AfterList(stop)]
        ELSE one("p", RemoveBold(line))

BlocksStart ==
    /\ bpc = "start"
    /\ mdLines' = Split(markdown, "\n")
    /\ blocks' = <<>>
    /\ origin' = <<>>
    /\ i' = 0
    /\ bpc' = "loop"
    /\ UNCHANGED markdown

BlockStep ==
    /\ bpc = "loop"
    /\ i < Len(mdLines)
    /\ LET step == ScanBlock(mdLines, i)
       IN  /\ blocks' = blocks \o step.emit
           /\ origin' = origin \o step.src
           /\ i' = step.next
    /\ UNCHANGED <<markdown, mdLines, bpc>>

BlocksReturn ==
    /\ bpc = "loop"
    /\ ~(i < Len(mdLines))
    /\ bpc' = "done"
    /\ UNCHANGED <<markdown, mdLines, i, blocks, origin>>

(***************************************************************************)
(* Specification of the block parser on bounded bodies                      *)
(***************************************************************************)
MaxMdLines == 3

MdLineSamples ==
    { <<"#", "#", "#", " ", "h">>,                 \* ### h
      <<"#", "#", " ", "h">>,                      \* ## h
      NoteTag \o <<" ", "n">>,                     \* > [!NOTE] n
      <<">", " ", "q">>,                           \* > q
      Backticks,                                   \* fence
      Backticks \o <<"j", "s">>,                   \* fence with a language tag
      FigureTag \o <<" ", "f">>,                   \* *Figure: f
      <<"-", " ", "a">>,                           \* - a
      <<" ", " ", "-", " ", "b">>,                 \*   - b  (indented item)
      <<"-", " ", " ", "c">>,                      \* -  c  (two spaces after the hyphen)
      <<"p">>,                                     \* p
      <<"*", "*", "p", "*", "*", " ", "q">>,       \* **p** q
      <<>>,                                        \* empty line
      <<" ", " ">> }                               \* blank line

\* a longer body: an opening fence, three lines (heading-like, blank,
\* list-like) and the end of the input
UnterminatedFence ==
    Join(<<Backticks, <<"#", "#", " ", "h">>, <<" ">>, <<"-", " ", "a">>>>, NL)

(***************************************************************************)
(* Specifications                                                           *)
(***************************************************************************)
\* a component no request has entered: no issues/ directory and no call
\* made; no digest, body or document handed to its parser
Idle(component) ==
    CASE component = "resolver" ->
            fs = [exists |-> FALSE, entries |-> <<>>] /\ result = None
      [] component = "digest" ->
            /\ issue = [digest |-> Undefined]
            /\ lines = <<>> /\ pos = 0 /\ mode = "none" /\ currentFocus = None
            /\ highlights = <<>> /\ trends = <<>> /\ focus = <<>>
            /\ dpc = "idle"
      [] component = "blocks" ->
            /\ markdown = <<>> /\ mdLines = <<>> /\ i = 0
            /\ blocks = <<>> /\ origin = <<>> /\ bpc = "idle"
      [] component = "frontMatter" ->
            raw = <<>> /\ fm = None /\ fpc = "idle"
      [] component = "calls" ->
            calls = <<>>
      [] component = "page" ->
            page = [phase |-> "closed"]

\* parseFrontMatter is handed a bounded document
InitFrontMatter ==
    /\ raw \in FmDocs /\ fm = None /\ fpc = "start"
    /\ Idle("resolver") /\ Idle("digest") /\ Idle("blocks") /\ Idle("calls") /\ Idle("page")

SpecFrontMatter ==
    InitFrontMatter
        /\ [][ParseFrontMatter /\ UNCHANGED <<resolverVars, digestVars, blockVars, calls, page>>]_vars

\* parseDigest is handed an issue with a bounded digest
InitDigest ==
    /\ issue \in { [digest |-> d] : d \in DigestValues }
    /\ lines = <<>> /\ pos = 0 /\ mode = "none" /\ currentFocus = None
    /\ highlights = <<>> /\ trends = <<>> /\ focus = <<>>
    /\ dpc = "start"
    /\ Idle("resolver") /\ Idle("blocks") /\ Idle("frontMatter") /\ Idle("calls") /\ Idle("page")

SpecDigest ==
    InitDigest
        /\ [][\/ DigestStart /\ UNCHANGED <<resolverVars, blockVars, fmVars, calls, page>>
              \/ DigestLine /\ UNCHANGED <<resolverVars, blockVars, fmVars, calls, page>>
              \/ DigestReturn /\ UNCHANGED <<resolverVars, blockVars, fmVars, calls, page>>]_vars

Next ==
    \/ CreateIssuesDir /\ UNCHANGED <<digestVars, blockVars, fmVars, calls, page>>
    \/ AddEntry /\ UNCHANGED <<digestVars, blockVars, fmVars, calls, page>>
    \/ WriteAdapter /\ UNCHANGED <<digestVars, blockVars, fmVars, calls, page>>
    \/ WriteDigest /\ UNCHANGED <<digestVars, blockVars, fmVars, calls, page>>
    \/ WritePaper /\ UNCHANGED <<digestVars, blockVars, fmVars, calls, page>>
    \/ WriteFigure /\ UNCHANGED <<digestVars, blockVars, fmVars, calls, page>>
    \/ CallGetIssues /\ UNCHANGED <<digestVars, blockVars, fmVars, calls, page>>
    \/ CallGetIssue /\ UNCHANGED <<digestVars, blockVars, fmVars, calls, page>>
    \/ CallGetPaper /\ UNCHANGED <<digestVars, blockVars, fmVars, calls, page>>

\* the resolver starts without an issues/ directory
Init ==
    Idle("resolver") /\ Idle("digest") /\ Idle("blocks") /\ Idle("frontMatter") /\ Idle("calls") /\ Idle("page")

Spec == Init /\ [][Next]_vars

BlocksNext ==
    \/ BlocksStart /\ UNCHANGED <<resolverVars, digestVars, fmVars, calls, page>>
    \/ BlockStep /\ UNCHANGED <<resolverVars, digestVars, fmVars, calls, page>>
    \/ BlocksReturn /\ UNCHANGED <<resolverVars, digestVars, fmVars, calls, page>>

\* parseBlocks is handed a bounded body
InitBlocks ==
    /\ markdown \in
          {UnterminatedFence}
              \cup { Join(ls, NL) :
                       ls \in UNION { [1..n -> MdLineSamples] : n \in 1..MaxMdLines } }
    /\ mdLines = <<>> /\ i = 0
    /\ blocks = <<>> /\ origin = <<>> /\ bpc = "start"
    /\ Idle("resolver") /\ Idle("digest") /\ Idle("frontMatter") /\ Idle("calls") /\ Idle("page")

SpecBlocks == InitBlocks /\ [][BlocksNext]_vars

\* parseBlocks is a synchronous function: once called it runs on.  The
\* bodies are shorter here, the body with the unterminated fence apart.
MaxLiveLines == 2

InitBlocksLive ==
    /\ markdown \in
          {UnterminatedFence}
              \cup { Join(ls, NL) :
                       ls \in UNION { [1..n -> MdLineSamples] : n \in 1..MaxLiveLines } }
    /\ mdLines = <<>> /\ i = 0
    /\ blocks = <<>> /\ origin = <<>> /\ bpc = "start"
    /\ Idle("resolver") /\ Idle("digest") /\ Idle("frontMatter") /\ Idle("calls") /\ Idle("page")

SpecBlocksLive == InitBlocksLive /\ [][BlocksNext]_vars /\ WF_vars(BlocksNext)

(***************************************************************************)
(* Specification of the paper parser on bounded documents: one issue        *)
(* directory holding one paper file, with or without a figure for it       *)
(***************************************************************************)
MaxBodyLines == 2

\* the header of a paper file: none, or one pair between two fences
PaperHeaders ==
    { <<>>,
      <<"-", "-", "-", "\n", "t", "i", "t", "l", "e", ":", " ", "T", "\n",
        "-", "-", "-", "\n">>,   \* title: T
      <<"-", "-", "-", "\n", "t", "a", "g", "s", ":", " ", "\"", "[", "r",
        "l", ",", " ", "s", "c", "a", "l", "i", "n", "g", ",", " ", "m", "o",
        "e", "]", "\"", "\n", "-", "-", "-", "\n">>,   \* tags: "[rl, scaling, moe]"
      <<"-", "-", "-", "\n", "t", "a", "g", "s", ":", " ", "[", "a", "[",
        "b", "]", ",", " ", ",", "\"", "c", "\"", "]", "\n", "-", "-", "-",
        "\n">>,   \* tags: [a[b], ,"c"]
      <<"-", "-", "-", "\n", "T", "a", "g", "s", ":", "\n", "-", "-", "-",
        "\n">>,   \* Tags:  (no value)
      <<"-", "-", "-", "\n", "a", "u", "t", "h", "o", "r", "s", ":", " ",
        "A", "\n", "-", "-", "-", "\n">> }   \* authors: A  (no tags)

\* body lines: prose, a heading, a line that only starts like one, a list
\* item, a padded line, a blank line
BodyLineSamples ==
    { <<"n", "o", " ", "h", "e", "a", "d", "i", "n", "g", " ", "h", "e", "r",
        "e">>,
      <<"a", "c", "t", "u", "a", "l", " ", "f", "i", "r", "s", "t", " ", "s",
        "e", "n", "t", "e", "n", "c", "e", ".">>,
      <<"#", " ", "H">>,
      <<"#", "x">>,
      <<"-", " ", "l">>,
      <<" ", "s", " ">>,
      <<>> }

\* issues/2026-02-12/papers/a.md holds the document
InitPaper ==
    /\ \E h \in PaperHeaders,
          b \in UNION { [1..n -> BodyLineSamples] : n \in 0..MaxBodyLines },
          figures \in {<<>>, <<<<"a", ".", "p", "n", "g">>>>} :
          fs = [exists |-> TRUE,
                entries |-> <<[name |-> Date0212, isDir |-> TRUE,
                               adapter |-> None, digest |-> None,
                               papers |-> <<[name |-> <<"a", ".", "m", "d">>,
                                             text |-> h \o Join(b, NL)]>>,
                               figures |-> figures]>>]
    /\ result = None
    /\ Idle("digest") /\ Idle("blocks") /\ Idle("frontMatter") /\ Idle("calls") /\ Idle("page")

\* parsePaper(date, file) as parseIssueFromFs calls it
ParsePaper ==
    /\ result = None
    /\ \E file \in Range(Names(EntryAt(Date0212).papers)) :
          result' = Some([call |-> [op |-> "parsePaper", date |-> Date0212, file |-> file],
                          ret |-> Return(parsePaper(Date0212, file))])
    /\ UNCHANGED <<fs, digestVars, blockVars, fmVars, calls, page>>


(***************************************************************************)
(* Figure handler: GET of the route /issues/[...path].  Paths are sequences *)
(* of segments below ROOT, the parent of issues/.                           *)
(***************************************************************************)
\* path.join(ISSUES_DIR, ...parts): the parts joined by "/" and normalised;
\* empty and "." segments vanish, ".." takes the segment before it away, a
\* trailing "/" stays (as a last, empty segment)
PathJoin(parts) ==
    LET joined == Join(parts, <<"/">>)
        segs == Split(joined, "/")
        N[k \in 0..Len(segs)] ==
            IF k = 0 THEN <<<<"i", "s", "s", "u", "e", "s">>>>
            ELSE IF segs[k] \in {<<>>, <<".">>} THEN N[k - 1]
            ELSE IF segs[k] = <<".", ".">> /\ N[k - 1] # <<>>
                        /\ N[k - 1][Len(N[k - 1])] # <<".", ".">>
                 THEN SubSeq(N[k - 1], 1, Len(N[k - 1]) - 1)
            ELSE Append(N[k - 1], segs[k])
    IN  IF EndsWith(joined, <<"/">>) THEN Append(N[Len(segs)], <<>>) ELSE N[Len(segs)]

\* fs.existsSync(full) && fs.statSync(full).isFile(): the regular files of
\* the tree, and package.json next to issues/
IsFile(full) ==
    \/ full = <<<<"p", "a", "c", "k", "a", "g", "e", ".", "j", "s", "o", "n">>>>
    \/ \E e \in Range(fs.entries) :
          LET under(rest) == full = <<<<"i", "s", "s", "u", "e", "s">>, e.name>> \o rest
          IN  IF ~e.isDir THEN under(<<>>)
              ELSE \/ e.digest # None /\ under(<<<<"d", "i", "g", "e", "s", "t", ".", "m", "d">>>>)
                   \/ \E f \in Range(e.papers) :
                         under(<<<<"p", "a", "p", "e", "r", "s">>, f.name>>)
                   \/ \E f \in Range(e.figures) :
                         under(<<<<"a", "s", "s", "e", "t", "s">>,
                                 <<"f", "i", "g", "u", "r", "e", "s">>, f>>)

\* the content type from path.extname(full).toLowerCase()
ContentType(full) ==
    LET base == full[Len(full)]
        dots == { k \in 2..Len(base) : base[k] = "." }
        ext == IF dots = {} THEN <<>>
               ELSE ToLowerCase(SubSeq(base, CHOOSE k \in dots : \A j \in dots : j <= k,
                                       Len(base)))
    IN  IF ext = <<".", "p", "n", "g">> THEN "image/png"
        ELSE IF ext \in {<<".", "j", "p", "g">>, <<".", "j", "p", "e", "g">>} THEN "image/jpeg"
        ELSE IF ext = <<".", "w", "e", "b", "p">> THEN "image/webp"
        ELSE IF ext = <<".", "g", "i", "f">> THEN "image/gif"
        ELSE "image/svg+xml"

\* the check on the date alone
Sanitised_dateOnly(date, filename) == IsDateKey(date)

\* !(!/^\d{4}-\d{2}-\d{2}$/.test(date) || filename.includes(".."))
Sanitised(date, filename) == IsDateKey(date) /\ ~Includes(filename, <<".", ".">>)

\* the response, with the paths handed to fs on the way
GET(pieces) ==
    LET date == pieces[1]
        filename == Join(SubSeq(pieces, 3, Len(pieces)), <<"/">>)
        full == PathJoin(<<date, <<"a", "s", "s", "e", "t", "s">>,
                           <<"f", "i", "g", "u", "r", "e", "s">>, filename>>)
    IN  IF Len(pieces) < 3 \/ pieces[2] # <<"f", "i", "g", "u", "r", "e", "s">>
        THEN [status |-> 404, touched |-> {}]
        ELSE IF ~Sanitised(date, filename)
        THEN [status |-> 400, touched |-> {}]
        ELSE IF ~IsFile(full)
        THEN [status |-> 404, touched |-> {full}]
        ELSE [status |-> 200, touched |-> {full}, served |-> full,
              contentType |-> ContentType(full)]

\* the page shows the item's image: the browser requests the URL parsePaper
\* gave, and the handler is handed its segments below /issues/
GetImage ==
    /\ result # None
    /\ result[1].call.op = "parsePaper"
    /\ Prop(result[1].ret.v, "image").t = "string"
    /\ LET url == Prop(result[1].ret.v, "image").s
           pieces == Split(SliceFrom(url, 8), "/")
       IN  result' = Some([call |-> [op |-> "GET", pieces |-> pieces, url |-> url],
                           ret |-> GET(pieces)])
    /\ UNCHANGED <<fs, digestVars, blockVars, fmVars, calls, page>>

SpecPaper == InitPaper /\ [][ParsePaper \/ GetImage]_vars

(***************************************************************************)
(* Specification of the figure handler: requests of up to MaxRest segments  *)
(* after the date and the second segment, on a tree with one issue          *)
(***************************************************************************)
MaxRest == 2

FigureNames ==
    << <<"a", ".", "p", "n", "g">>, <<"a", ".", "J", "P", "G">>,
       <<"a", ".", "j", "p", "e", "g">>, <<"a", ".", "w", "e", "b", "p">>,
       <<"a", ".", "g", "i", "f">>, <<"a", ".", "s", "v", "g">>, <<"a">> >>

\* segments of a request: the figures, the parent directory, a decoded
\* segment that climbs to the digest, a name with two dots, the empty segment
RequestPaths ==
    LET segments ==
            Range(FigureNames)
                \cup { <<".", ".">>,
                       <<".", ".", "/", ".", ".", "/", "d", "i", "g", "e", "s", "t", ".", "m", "d">>,
                       <<"a", ".", ".", "p", "n", "g">>,
                       <<>> }
    IN  { <<date, second>> \o rest :
            date \in {Date0212, <<"2", "0", "2", "6", "-", "2", "-", "1", "2">>, <<".", ".">>},
            second \in {<<"f", "i", "g", "u", "r", "e", "s">>, <<"a", "s", "s", "e", "t", "s">>},
            rest \in UNION { [1..n -> segments] : n \in 0..MaxRest } }
        \cup { <<>>, <<Date0212>> }

InitFigure ==
    /\ \E figures \in {<<>>, FigureNames} :
          fs = [exists |-> TRUE,
                entries |-> <<[name |-> Date0212, isDir |-> TRUE,
                               adapter |-> None, digest |-> Some(<<"x">>),
                               papers |-> <<>>, figures |-> figures]>>]
    /\ result = None
    /\ Idle("digest") /\ Idle("blocks") /\ Idle("frontMatter") /\ Idle("calls") /\ Idle("page")

\* a request for /issues/<pieces> is answered
GetFigure ==
    /\ result = None
    /\ \E pieces \in RequestPaths :
          result' = Some([call |-> [op |-> "GET", pieces |-> pieces],
                          ret |-> GET(pieces)])
    /\ UNCHANGED <<fs, digestVars, blockVars, fmVars, calls, page>>

SpecFigure == InitFigure /\ [][GetFigure]_vars

(***************************************************************************)
(* Specification of concurrent resolver calls: MaxCalls rendering requests  *)
(* call getIssues, getIssue and getPaper over one file tree that nothing    *)
(* writes.  A call reads the tree in several steps (the listing of issues/, *)
(* then one issue directory after the other), and the steps of the calls    *)
(* interleave in any order; each call keeps what it has read in its own     *)
(* locals.                                                                  *)
(***************************************************************************)
MaxCalls == 2

\* the trees: no issues/ directory, an empty one, one or two issue
\* directories; these are 2026-02-10 without papers and 2026-02-12 with b.md
\* listed before a.md, each with or without a snapshot
RestingTrees ==
    LET RestingEntries ==
        { [name |-> Date0210, isDir |-> TRUE, adapter |-> a, digest |-> None,
           papers |-> <<>>, figures |-> <<>>] :
              a \in {None, Some(Json(Obj([date |-> Str(Date0210), papers |-> Arr(<<>>)])))} }
        \cup
        { [name |-> Date0212, isDir |-> TRUE, adapter |-> a, digest |-> None,
           papers |-> <<f, g>>, figures |-> <<>>] :
              a \in {None, Some(Json(Obj([date |-> Str(Date0212),
                                           papers |-> Arr(<<Obj([id |-> Str(IdA)])>>)])))},
              f \in {x \in PaperFiles : x.name = <<"b", ".", "m", "d">>},
              g \in {x \in PaperFiles : x.name = <<"a", ".", "m", "d">>} }
    IN
    { [exists |-> FALSE, entries |-> <<>>], [exists |-> TRUE, entries |-> <<>>] }
    \cup { [exists |-> TRUE, entries |-> <<e>>] : e \in RestingEntries }
    \cup { [exists |-> TRUE, entries |-> pair] :
              pair \in { x \in RestingEntries \X RestingEntries : x[1].name # x[2].name } }

\* the calls a request makes
CallKinds ==
    { [op |-> "getIssues"],
      [op |-> "getIssue", date |-> Date0212],
      [op |-> "getPaper", date |-> Date0212, paperId |-> IdA] }

\* the caller whose locals a step of caller p writes: the array that map
\* builds belongs to the invocation
Locals_shared(p) == 1

Locals(p) == p

\* a request that is in no call
NoCall == [pc |-> "idle", call |-> [op |-> "none"], dates |-> <<>>, issues |-> <<>>, ret |-> None]

InitConcurrent ==
    /\ fs \in RestingTrees
    /\ result = None
    /\ calls = [p \in 1..MaxCalls |-> NoCall]
    /\ Idle("digest") /\ Idle("blocks") /\ Idle("frontMatter") /\ Idle("page")

\* a request enters getIssues, getIssue or getPaper (again, when its last
\* call has returned)
EnterCall ==
    /\ \E p \in DOMAIN calls, kind \in CallKinds :
          /\ calls[p].pc \in {"idle", "done"}
          /\ calls' = [calls EXCEPT ![p] = [NoCall EXCEPT !.pc = "list", !.call = kind]]
    /\ UNCHANGED <<fs, result, digestVars, blockVars, fmVars, page>>

\* issueDates(): the listing of issues/ is read
ListDates ==
    /\ \E p \in DOMAIN calls :
          /\ calls[p].pc = "list"
          /\ calls' = [calls EXCEPT ![p].pc = "map",
                                    ![p].dates = issueDates,
                                    ![Locals(p)].issues = <<>>]
    /\ UNCHANGED <<fs, result, digestVars, blockVars, fmVars, page>>

\* one call of the callback of map: the next issue directory is read
MapDate ==
    /\ \E p \in DOMAIN calls :
          /\ calls[p].pc = "map"
          /\ calls[p].dates # <<>>
          /\ calls' = [calls EXCEPT ![p].dates = Tail(@),
                                    ![Locals(p)].issues =
                                        Append(@, IssueFor(Head(calls[p].dates)))]
    /\ UNCHANGED <<fs, result, digestVars, blockVars, fmVars, page>>

\* map has returned: getIssues returns the array, getIssue and getPaper
\* search it
ReturnCall ==
    /\ \E p \in DOMAIN calls :
          LET call == calls[p].call
              issues == calls[Locals(p)].issues
          IN  /\ calls[p].pc = "map"
              /\ calls[p].dates = <<>>
              /\ calls' = [calls EXCEPT
                             ![p].pc = "done",
                             ![p].ret =
                                 Some(CASE call.op = "getIssues" -> Return(Arr(issues))
                                        [] call.op = "getIssue" ->
                                               Return(FindIssue(issues, call.date))
                                        [] call.op = "getPaper" ->
                                               PaperIn(FindIssue(issues, call.date),
                                                       call.paperId))]
    /\ UNCHANGED <<fs, result, digestVars, blockVars, fmVars, page>>

SpecConcurrent == InitConcurrent /\ [][EnterCall \/ ListDates \/ MapDate \/ ReturnCall]_vars

(***************************************************************************)
(* Theme: the initTheme script of the root layout and ThemeToggle.  The     *)
(* page is loaded (the script runs before the page is interactive), the     *)
(* toggle is rendered with its initial state, its mount effect runs, and    *)
(* the button is clicked; a click may come before the mount effect.  stored *)
(* is localStorage's ai-daily-theme, dark the class of the document         *)
(* element, theme the state of the component, clicks the clicks since the   *)
(* page was loaded, loads the times it was loaded.  The system's colour     *)
(* scheme may change at any time; nothing listens to it.                    *)
(***************************************************************************)
MaxClicks == 3
MaxLoads == 3

\* the page is requested: the document has no class yet and the storage
\* holds what an earlier visit left
InitTheme ==
    /\ page \in { [phase |-> "loading", stored |-> st, prefersDark |-> pd,
                    dark |-> FALSE, theme |-> "light", clicks |-> 0, loads |-> 1] :
                      st \in {None, Some("light"), Some("dark")}, pd \in BOOLEAN }
    /\ Idle("resolver") /\ Idle("digest") /\ Idle("blocks") /\ Idle("frontMatter")
    /\ Idle("calls")

\* the script: shouldDark = stored ? stored === 'dark' : dark
RunInitTheme ==
    /\ page.phase = "loading"
    /\ page' = [page EXCEPT
                  !.phase = "scripted",
                  !.dark = IF page.stored # None THEN page.stored = Some("dark")
                           ELSE page.prefersDark]
    /\ UNCHANGED <<resolverVars, digestVars, blockVars, fmVars, calls>>

\* ThemeToggle is rendered: useState("light")
RenderToggle ==
    /\ page.phase = "scripted"
    /\ page' = [page EXCEPT !.phase = "rendered", !.theme = "light"]
    /\ UNCHANGED <<resolverVars, digestVars, blockVars, fmVars, calls>>

\* the mount effect: setTheme(classList.contains("dark") ? "dark" : "light")
MountEffect ==
    /\ page.phase = "rendered"
    /\ page' = [page EXCEPT !.phase = "mounted",
                            !.theme = IF page.dark THEN "dark" ELSE "light"]
    /\ UNCHANGED <<resolverVars, digestVars, blockVars, fmVars, calls>>

\* toggle(), the button's onClick
Toggle ==
    /\ page.phase \in {"rendered", "mounted"}
    /\ page.clicks < MaxClicks
    /\ LET next == IF page.theme = "dark" THEN "light" ELSE "dark"
       IN  page' = [page EXCEPT !.theme = next,
                               !.dark = (next = "dark"),
                               !.stored = Some(next),
                               !.clicks = @ + 1]
    /\ UNCHANGED <<resolverVars, digestVars, blockVars, fmVars, calls>>

\* the page is loaded again: the storage stays, the document is new
Reload ==
    /\ page.phase # "loading"
    /\ page.loads < MaxLoads
    /\ page' = [page EXCEPT !.phase = "loading", !.dark = FALSE,
                            !.theme = "light", !.clicks = 0, !.loads = @ + 1]
    /\ UNCHANGED <<resolverVars, digestVars, blockVars, fmVars, calls>>

\* the system switches between its light and dark colour scheme
SchemeChange ==
    /\ page' = [page EXCEPT !.prefersDark = ~@]
    /\ UNCHANGED <<resolverVars, digestVars, blockVars, fmVars, calls>>

SpecTheme ==
    InitTheme /\ [][RunInitTheme \/ RenderToggle \/ MountEffect \/ Toggle
                      \/ Reload \/ SchemeChange]_vars

(***************************************************************************)
(* Language: useLang and the components that call it.  Each call of the    *)
(* hook has a state of its own, "zh" at first, and a mount effect.  In     *)
(* page, saved is localStorage's ai-daily-lang, navigator the browser's    *)
(* language, docLang the lang attribute of the document, comps the state   *)
(* of each component, next the argument of the last setLang call.          *)
(***************************************************************************)
MaxLangClicks == 2

\* detectLang() in the browser
detectLang(saved, navigator) ==
    IF saved \in {Some("zh"), Some("en")} THEN saved[1]
    ELSE IF StartsWith(ToLowerCase(navigator), <<"z", "h">>) THEN "zh" ELSE "en"

\* the page is rendered: every useState("zh"), no effect has run
InitLang ==
    /\ page \in { [phase |-> "rendered", saved |-> sv, navigator |-> nav,
                    docLang |-> "en", next |-> None, clicks |-> 0,
                    comps |-> [c \in {"LanguageToggle", "T", "TNode"} |->
                                  [lang |-> "zh", mounted |-> FALSE]]] :
                      sv \in {None, Some("zh"), Some("en"), Some("fr")},
                      nav \in {<<"Z", "H", "-", "C", "N">>, <<"e", "n", "-", "U", "S">>, <<>>} }
    /\ Idle("resolver") /\ Idle("digest") /\ Idle("blocks") /\ Idle("frontMatter")
    /\ Idle("calls")

\* the mount effect of one component's useLang
UseLangEffect ==
    /\ page.phase = "rendered"
    /\ \E c \in DOMAIN page.comps :
          /\ ~page.comps[c].mounted
          /\ LET current == detectLang(page.saved, page.navigator)
             IN  page' = [page EXCEPT
                            !.comps[c] = [lang |-> current, mounted |-> TRUE],
                            !.docLang = IF current = "zh" THEN "zh-CN" ELSE "en",
                            !.saved = Some(current)]
    /\ UNCHANGED <<resolverVars, digestVars, blockVars, fmVars, calls>>

\* a button of LanguageToggle is clicked: changeLang(next) of its useLang
ChangeLang ==
    /\ page.phase = "rendered"
    /\ page.clicks < MaxLangClicks
    /\ \E next \in {"zh", "en"} :
          page' = [page EXCEPT
                     !.comps["LanguageToggle"].lang = next,
                     !.saved = Some(next),
                     !.docLang = IF next = "zh" THEN "zh-CN" ELSE "en",
                     !.next = Some(next),
                     !.clicks = @ + 1]
    /\ UNCHANGED <<resolverVars, digestVars, blockVars, fmVars, calls>>

SpecLang == InitLang /\ [][UseLangEffect \/ ChangeLang]_vars

(***************************************************************************)
(* Properties of the issue resolver                                         *)
(***************************************************************************)
Called(op) == result # None /\ result[1].call.op = op

\* the issues a getIssues call returned
Returned == result[1].ret.v.a

\* the snapshot the claims call well-formed for the directory named date:
\* a JSON object whose date is that non-empty name and whose papers is an array
WellFormedSnapshot(content, date) ==
    /\ content.t = "json"
    /\ content.j.t = "object"
    /\ date # <<>>
    /\ Prop(content.j, "date") = Str(date)
    /\ Prop(content.j, "papers").t = "array"

\* C3 as stated: the snapshot is accepted only if it is a JSON object whose
\* date is non-empty and matches the directory and whose papers is an array;
\* in every other case the issue returned is the raw-parse result.
C3_AcceptedOnlyIfMatching_AsStated ==
    Called("getIssues") =>
        \A k \in 1..Len(issueDates) :
            LET date == issueDates[k]
                adapter == EntryAt(date).adapter
            IN  (adapter = None \/ ~WellFormedSnapshot(adapter[1], date))
                    => Returned[k] = parseIssueFromFs(date)

\* the contents C4 lists: unparseable text, null, a number, a string, an
\* array, an object without date (or with an empty one), an object whose
\* papers is no array
FailingSnapshot(content) ==
    \/ content.t = "garbage"
    \/ content.j.t \in {"null", "number", "string", "array"}
    \/ /\ content.j.t = "object"
       /\ \/ "date" \notin DOMAIN content.j.o
          \/ Prop(content.j, "date") = Str(<<>>)
          \/ Prop(content.j, "papers").t # "array"

\* C4: whatever failing content issue-data.json has, getIssues returns
\* (it does not raise) and returns for that date what parseIssueFromFs returns.
C4_SnapshotFailuresDowngraded ==
    Called("getIssues") =>
        /\ result[1].ret.t = "return"
        /\ Len(Returned) = Len(issueDates)
        /\ \A k \in 1..Len(issueDates) :
              LET date == issueDates[k]
                  adapter == EntryAt(date).adapter
              IN  adapter # None /\ FailingSnapshot(adapter[1])
                      => Returned[k] = parseIssueFromFs(date)

\* a directory whose snapshot is the JSON text null (parsed.date raises
\* inside the try block): the issue returned is the raw-parse result
C4_Witness ==
    /\ Called("getIssues")
    /\ \E k \in 1..Len(issueDates) :
          /\ EntryAt(issueDates[k]).adapter = Some(Json(Null))
          /\ Returned[k] = parseIssueFromFs(issueDates[k])

\* C5: a well-formed snapshot is the issue returned, whatever papers/ and
\* digest.md hold; without a snapshot the raw files are parsed.
C5_SnapshotVerbatim ==
    Called("getIssues") =>
        \A k \in 1..Len(issueDates) :
            LET date == issueDates[k]
                adapter == EntryAt(date).adapter
            IN  /\ adapter # None /\ WellFormedSnapshot(adapter[1], date)
                       => Returned[k] = adapter[1].j
                /\ adapter = None => Returned[k] = parseIssueFromFs(date)

\* a directory with a well-formed snapshot next to a paper file: the
\* snapshot is returned and the paper is not in it
C5_Witness ==
    /\ Called("getIssues")
    /\ \E k \in 1..Len(issueDates) :
          LET entry == EntryAt(issueDates[k])
          IN  /\ entry.adapter # None
              /\ WellFormedSnapshot(entry.adapter[1], issueDates[k])
              /\ \E f \in Range(entry.papers) : EndsWith(f.name, ExtMd)
              /\ Returned[k] = entry.adapter[1].j
              /\ Prop(Returned[k], "papers") = Arr(<<>>)

\* C6 as stated: the date keys of the issues getIssues returns are in
\* strictly descending string order, for any directories and snapshots.
C6_DescendingDates_AsStated ==
    Called("getIssues") =>
        /\ \A k \in 1..Len(Returned) : Prop(Returned[k], "date").t = "string"
        /\ \A k \in 1..(Len(Returned) - 1) :
              Less(Prop(Returned[k + 1], "date").s, Prop(Returned[k], "date").s)

\* C7 as stated: no two issues getIssues returns have the same date key.
C7_UniqueDates_AsStated ==
    Called("getIssues") =>
        \A j, k \in 1..Len(Returned) :
            j # k => Prop(Returned[j], "date") # Prop(Returned[k], "date")

\* C30 as stated: every enumerated issue is reachable by its directory
\* date.  getIssue(D) returns an issue dated D for every directory name D
\* that issueDates retains, and null for every other key, whatever the
\* snapshot files hold.
C30_ReachableByDirectoryDate_AsStated ==
    Called("getIssue") =>
        LET date == result[1].call.date
            ret == result[1].ret
        IN  /\ ret.t = "return"
            /\ IF \E k \in 1..Len(issueDates) : issueDates[k] = date
               THEN ret.v # Null /\ Prop(ret.v, "date") = Str(date)
               ELSE ret.v = Null

\* the items of an issue that carry the id
ItemsWithId(x, paperId) ==
    { n \in 1..Len(Prop(x, "papers").a) :
        Prop(Prop(x, "papers").a[n], "id") = Str(paperId) }

\* C8 as stated: getIssue returns null when no resolved issue has the date;
\* getPaper returns null when the issue is absent or has no item with the
\* id, and otherwise that issue with an item of that id; neither raises.
C8_NotFoundIsAbsence_AsStated ==
    /\ Called("getIssue") =>
          LET date == result[1].call.date
              ret == result[1].ret
          IN  /\ ret.t = "return"
              /\ (\A k \in 1..Len(getIssues) : Prop(getIssues[k], "date") # Str(date))
                     => ret.v = Null
    /\ Called("getPaper") =>
          LET date == result[1].call.date
              paperId == result[1].call.paperId
              ret == result[1].ret
              found == getIssue(date)
          IN  /\ ret.t = "return"
              /\ IF found = Null THEN ret.v = Null
                 ELSE IF ItemsWithId(found, paperId) = {} THEN ret.v = Null
                 ELSE /\ ret.v.t = "object"
                      /\ ret.v.o.issue = found
                      /\ Prop(ret.v.o.paper, "id") = Str(paperId)

(***************************************************************************)
(* Properties of the digest sectionizer                                     *)
(***************************************************************************)

\* the line at position k (from 1) as the loop sees it
DLine(k) == Trim(lines[k])

IsMarker(k) ==
    \/ Includes(DLine(k), MarkerHighlight)
    \/ Includes(DLine(k), MarkerTrend)
    \/ Includes(DLine(k), MarkerFocus)

\* the section a marker line opens: highlights before trends before focus
MarkerKind(k) ==
    IF Includes(DLine(k), MarkerHighlight) THEN "highlight"
    ELSE IF Includes(DLine(k), MarkerTrend) THEN "trend"
    ELSE "focus"

\* the state in which line k is met: that of the last marker line before it
ModeAt(k) ==
    LET before == { j \in 1..(k - 1) : IsMarker(j) }
    IN  IF before = {} THEN "none"
        ELSE MarkerKind(CHOOSE j \in before : \A m \in before : m <= j)

\* empty lines, rule lines and table rows
Skipped(k) ==
    DLine(k) = <<>> \/ StartsWith(DLine(k), Fence) \/ StartsWith(DLine(k), <<"|">>)

\* a level-3 heading line met in the focus state
FocusHeading(k) ==
    /\ ~IsMarker(k) /\ ~Skipped(k)
    /\ ModeAt(k) = "focus"
    /\ StartsWith(DLine(k), <<"#", "#", "#">>)

FocusHeadings == { k \in 1..Len(lines) : FocusHeading(k) }

\* the members of a set of positions, in ascending order
Ascending(S) ==
    [j \in 1..Cardinality(S) |-> CHOOSE k \in S : Cardinality({m \in S : m < k}) = j - 1]

\* the first position after h that ends the entry opened at h: the next
\* marker line or focus heading, or the end of the lines
EntryEnd(h) ==
    LET closing == { k \in (h + 1)..Len(lines) : IsMarker(k) \/ FocusHeading(k) }
    IN  IF closing = {} THEN Len(lines) + 1
        ELSE CHOOSE k \in closing : \A m \in closing : k <= m

\* the cleaned lines that belong to the entry opened at h, space-joined
EntryText(h) ==
    LET kept == { m \in (h + 1)..(EntryEnd(h) - 1) :
                    /\ ~Skipped(m)
                    /\ ~StartsWith(DLine(m), Arrow)
                    /\ clean(DLine(m)) # <<>> }
        order == Ascending(kept)
    IN  Join([j \in 1..Len(order) |-> clean(DLine(order[j]))], <<" ">>)

\* the text of a level-3 heading
HeadingText(k) == Trim(SliceFrom(DLine(k), 3))

HeadingsUpTo(n) == { k \in FocusHeadings : k <= n }

\* a step that processes a trend-marker or focus-marker line flushes the
\* pending entry, and so does the return after the last line
FlushStep ==
    /\ dpc = "loop" /\ pos' = pos + 1 /\ IsMarker(pos')
            /\ MarkerKind(pos') \in {"trend", "focus"} =>
          focus' = focus \o currentFocus /\ currentFocus' = None
    /\ dpc = "loop" /\ dpc' = "done" => focus' = focus \o currentFocus

\* C22: focus entries are flushed exactly once and in order.  Processing a
\* trend-marker or focus-marker line appends the pending focus entry, if
\* any, to the focus list and leaves none pending; the entry pending at the
\* end of the input is appended.  So at every point of the loop the focus
\* list followed by the pending entry holds one entry for each level-3
\* heading met in the focus state so far, in the order of the headings, and
\* the list returned holds each of them exactly once, also when a
\* highlights marker follows an open entry.
C22_FlushOnceInOrder ==
    /\ [][FlushStep]_vars
    /\ [](dpc \in {"loop", "done"} =>
            LET all == IF dpc = "done" THEN focus ELSE focus \o currentFocus
                met == Ascending(HeadingsUpTo(pos))
            IN  /\ Len(all) = Len(met)
                /\ \A j \in 1..Len(met) : all[j].title = HeadingText(met[j])
                /\ dpc = "done" => Len(focus) = Cardinality(FocusHeadings))

\* a highlights marker followed an open focus entry, and the entry was
\* returned once
C22_Witness ==
    /\ dpc = "done"
    /\ Len(lines) = 3
    /\ FocusHeading(2)
    /\ IsMarker(3) /\ MarkerKind(3) = "highlight"
    /\ focus = <<[title |-> <<"T">>, text |-> <<>>]>>

\* line k is a table row or a rule line
TableOrRule(k) == StartsWith(DLine(k), <<"|">>) \/ StartsWith(DLine(k), Fence)

\* the loop processes line pos + 1 and leaves the machine as it was
LineIgnored == UNCHANGED <<mode, currentFocus, highlights, trends, focus>>

\* C23 as stated: processing a line that starts with '|' or with '---'
\* changes neither the mode, nor the pending focus entry, nor any of the
\* three lists, in every state.
C23_TableAndRuleIgnored_AsStated ==
    [][dpc = "loop" /\ pos' = pos + 1 /\ TableOrRule(pos') => LineIgnored]_vars

\* C23, amended: a line that starts with '|' or with '---' and contains
\* none of the three markers changes neither the mode, nor the pending
\* focus entry, nor any of the three lists, in every state; the markers are
\* looked for first, so a table row or rule line that contains one is a
\* marker line.
C23_TableAndRuleIgnored ==
    [][dpc = "loop" /\ pos' = pos + 1 /\ TableOrRule(pos') /\ ~IsMarker(pos')
          => LineIgnored]_vars

\* a table row has been processed while a focus entry was pending
C23_Witness ==
    /\ dpc = "loop" /\ pos = 3
    /\ TableOrRule(3) /\ ~IsMarker(3)
    /\ mode = "focus"
    /\ currentFocus # None

\* line k is met in the highlights state and is neither a marker line, a
\* table row, a rule line, empty, nor a line starting with ##
HighlightLine(k) ==
    /\ ~IsMarker(k) /\ ~Skipped(k)
    /\ ModeAt(k) = "highlight"
    /\ ~StartsWith(DLine(k), <<"#", "#">>)

\* the texts of a set of lines, cleaned, in source order
CleanedTexts(S) == [j \in 1..Cardinality(S) |-> clean(DLine(Ascending(S)[j]))]

\* what the marker stripping makes of the sample lines
CleanedSample(line) ==
    IF line \in {<<"-", " ", "a">>, <<">", " ", "a">>, <<"a">>} THEN <<"a">>
    ELSE IF line = <<"1", ".", " ", "b">> THEN <<"b">>
    ELSE IF line \in {<<"-">>, <<"1", ".">>} THEN <<>>
    ELSE line

\* the loop processes line pos + 1, met in the highlights state and not a
\* marker line
InHighlights == dpc = "loop" /\ pos' = pos + 1 /\ mode = "highlight" /\ ~IsMarker(pos')

\* C24 as stated: in the highlights state a line starting with a heading
\* marker is skipped and every other non-empty line that is no marker,
\* table or rule line is cleaned and appended to highlights; nothing is
\* appended to trends or focus.
C24_Highlights_AsStated ==
    [][InHighlights =>
          /\ highlights' = IF HighlightLine(pos') THEN Append(highlights, clean(DLine(pos')))
                            ELSE highlights
          /\ UNCHANGED <<trends, focus>>]_vars

\* C24, amended: in the highlights state a line starting with ## is
\* skipped, and every other non-empty line that is no marker, table or rule
\* line is cleaned of its leading list, number and quote markers and, unless
\* nothing is left of it (as of a lone '-'), appended to highlights, in
\* source order; such lines change neither trends, nor focus, nor the
\* pending entry, nor the state.  The highlights returned are the cleaned
\* texts of these lines in order ('- a' gives 'a', '1. b' gives 'b',
\* '> a' gives 'a'), or the placeholder alone if there are none.
C24_Highlights ==
    /\ [][InHighlights =>
            /\ highlights' =
                   IF HighlightLine(pos') /\ CleanedSample(DLine(pos')) # <<>>
                   THEN Append(highlights, CleanedSample(DLine(pos')))
                   ELSE highlights
            /\ UNCHANGED <<trends, focus, currentFocus, mode>>]_vars
    /\ [](dpc = "done" =>
            highlights =
                WithPlaceholder(CleanedTexts({ k \in 1..Len(lines) :
                    HighlightLine(k) /\ clean(DLine(k)) # <<>> })))

\* a lone '-' met in the highlights state was appended to nothing, and
\* another line of that state was appended to highlights
C24_Witness ==
    /\ dpc = "done"
    /\ Len(lines) = 3
    /\ \E k \in 1..3 : DLine(k) = <<"-">> /\ HighlightLine(k)
    /\ Len(highlights) = 1
    /\ highlights[1] # Placeholder

\* a numbered-list line (digits and a dot) or a bulleted-list line (a hyphen
\* or an asterisk and a white-space character)
ListPattern(line) ==
    \/ \E n \in 1..(Len(line) - 1) :
           (\A j \in 1..n : line[j] \in Digits) /\ line[n + 1] = "."
    \/ Len(line) >= 2 /\ line[1] \in {"-", "*"} /\ line[2] \in Whitespace

\* line k is met in the trends state, matches a list pattern and is neither
\* a marker line, a table row nor a rule line
TrendLine(k) ==
    /\ ~IsMarker(k) /\ ~Skipped(k)
    /\ ModeAt(k) = "trend"
    /\ ListPattern(DLine(k))

\* C25: in the trends state only lines matching a numbered-list or
\* bulleted-list pattern are cleaned and appended to trends, in source
\* order; every other line processed in that state changes none of the
\* three lists, and no line processed in that state is appended to
\* highlights or focus.  The trends returned are the cleaned texts of the
\* matching lines that leave a text, in order ('1. b' gives 'b', '- a'
\* gives 'a'; '1.' leaves nothing).
C25_Trends ==
    /\ [][dpc = "loop" /\ pos' = pos + 1 /\ mode = "trend" =>
            /\ highlights' = highlights /\ focus' = focus
            /\ \/ trends' = trends
               \/ /\ TrendLine(pos')
                  /\ trends' = Append(trends, CleanedSample(DLine(pos')))
            /\ ~ListPattern(DLine(pos')) => trends' = trends]_vars
    /\ [](dpc = "done" =>
            trends = CleanedTexts({ k \in 1..Len(lines) :
                                      TrendLine(k) /\ clean(DLine(k)) # <<>> }))

\* a numbered line and a plain line were met in the trends state: the
\* first was appended, the second was not
C25_Witness ==
    /\ dpc = "done"
    /\ Len(lines) = 3
    /\ IsMarker(1) /\ MarkerKind(1) = "trend"
    /\ DLine(2) = <<"1", ".", " ", "b">>
    /\ DLine(3) = <<"a">>
    /\ trends = << <<"b">> >>

\* no marker line is among the first n lines
NoMarkerUpTo(n) == \A k \in 1..n : ~IsMarker(k)

\* C26: digest mode transitions are by substring containment.  In any
\* state a non-blank line containing a marker moves the machine to that
\* marker's state, the highlights marker before the trends marker before
\* the focus marker when a line contains several, and the line itself is
\* appended to no list (the focus list only receives the pending entry);
\* until the first marker line the machine stays in the none state and
\* every list stays empty.
C26_MarkerTransitions ==
    /\ [][dpc = "loop" /\ pos' = pos + 1 /\ IsMarker(pos') =>
            /\ mode' = MarkerKind(pos')
            /\ highlights' = highlights /\ trends' = trends
            /\ focus' \in {focus, focus \o currentFocus}
            /\ currentFocus' \in {None, currentFocus}]_vars
    /\ [](dpc = "loop" =>
            /\ mode = ModeAt(pos + 1)
            /\ NoMarkerUpTo(pos) =>
                   /\ mode = "none" /\ currentFocus = None
                   /\ highlights = <<>> /\ trends = <<>> /\ focus = <<>>)

\* lines were passed over in the none state, then a line holding the focus
\* and the trend marker moved the machine to the trend state
C26_Witness ==
    /\ dpc = "loop" /\ pos = 3
    /\ NoMarkerUpTo(2) /\ DLine(1) # <<>> /\ DLine(2) # <<>>
    /\ DLine(3) = MarkerFocus \o MarkerTrend
    /\ mode = "trend"

\* C1: parseDigest is total: for a digest that is a text (the empty text
\* included) or absent it never raises, the loop index stays within the
\* lines (so the loop step or the return is always possible), and the
\* highlights it returns are never empty.
C1_DigestTotal ==
    /\ issue.digest.t \in {"undefined", "string"} => dpc # "raised"
    /\ dpc = "loop" => pos \in 0..Len(lines)
    /\ dpc = "done" => highlights # <<>>

\* a narrative whose highlights marker was seen but collected nothing: the
\* placeholder is the only highlight returned
C1_Witness ==
    dpc = "done" /\ mode = "highlight" /\ highlights = <<Placeholder>>

\* the non-empty members of q, in order
RECURSIVE Compact(_)
Compact(q) ==
    IF q = <<>> THEN <<>>
    ELSE IF Head(q) = <<>> THEN Compact(Tail(q))
    ELSE <<Head(q)>> \o Compact(Tail(q))

\* the ids of the items of an issue, in order
ItemIds(x) == [n \in 1..Len(Prop(x, "papers").a) |-> Prop(Prop(x, "papers").a[n], "id")]

\* C15: in an issue parsed from the raw files, the items stand for the
\* markdown files of the papers directory one for one, and two different
\* files never give the same id; so getPaper's (date, id) names at most one
\* item of such an issue, and exactly one when it returns a paper.
C15_InjectiveIds ==
    /\ Called("getIssues") =>
          \A k \in 1..Len(Returned) :
              LET files == PaperFileNames(EntryAt(issueDates[k]).papers)
                  ids == ItemIds(Returned[k])
              IN  Returned[k] = parseIssueFromFs(issueDates[k]) =>
                      /\ Len(ids) = Len(files)
                      /\ \A m, n \in 1..Len(files) :
                             files[m] # files[n] => ids[m] # ids[n]
                      /\ \A m, n \in 1..Len(ids) : m # n => ids[m] # ids[n]
    /\ Called("getPaper") =>
          LET date == result[1].call.date
              paperId == result[1].call.paperId
              ret == result[1].ret
          IN  /\ ret.t = "return" /\ ret.v # Null
              /\ \E k \in 1..Len(issueDates) : issueDates[k] = date
              /\ ret.v.o.issue = parseIssueFromFs(date)
              => Cardinality(ItemsWithId(ret.v.o.issue, paperId)) = 1

\* getIssues returned an issue parsed from two markdown files whose names
\* start alike, a.md and a.x.md, with the ids a and a.x
C15_Witness ==
    /\ Called("getIssues")
    /\ \E k \in 1..Len(Returned) :
          /\ Returned[k] = parseIssueFromFs(issueDates[k])
          /\ ItemIds(Returned[k]) = <<Str(<<"a">>), Str(<<"a", ".", "x">>)>>

\* the markdown files of the papers directory of date, in the order in which
\* the directory listing enumerates them
ListedMarkdown(date) ==
    LET listing == EntryAt(date).papers
    IN  Compact([k \in 1..Len(listing) |->
                    IF EndsWith(listing[k].name, ExtMd) THEN listing[k].name ELSE <<>>])

\* the file names the items of an issue come from, in the order of the items
ItemFiles(x) == [n \in 1..Len(ItemIds(x)) |-> ItemIds(x)[n].s \o ExtMd]

\* C16 as stated: the items of an issue parsed from the raw files stand in
\* the order in which the directory listing enumerated their files.
C16_EnumerationOrder_AsStated ==
    Called("getIssues") =>
        \A k \in 1..Len(Returned) :
            Returned[k] = parseIssueFromFs(issueDates[k]) =>
                ItemFiles(Returned[k]) = ListedMarkdown(issueDates[k])

\* C16 (amended): the items of an issue parsed from the raw files are those
\* of the markdown files of the listing, in ascending order of the file
\* names, whatever the order of the listing.
C16_FileNameOrder ==
    Called("getIssues") =>
        \A k \in 1..Len(Returned) :
            LET files == ItemFiles(Returned[k])
            IN  Returned[k] = parseIssueFromFs(issueDates[k]) =>
                    /\ Len(files) = Len(ListedMarkdown(issueDates[k]))
                    /\ Range(files) = Range(ListedMarkdown(issueDates[k]))
                    /\ \A n \in 1..(Len(files) - 1) : Less(files[n], files[n + 1])

\* getIssues returned an issue parsed from a directory that lists b.md
\* before a.md: its items are a, b
C16_Witness ==
    /\ Called("getIssues")
    /\ \E k \in 1..Len(Returned) :
          /\ Returned[k] = parseIssueFromFs(issueDates[k])
          /\ ListedMarkdown(issueDates[k]) = <<<<"b", ".", "m", "d">>, <<"a", ".", "m", "d">>>>
          /\ ItemIds(Returned[k]) = <<Str(<<"a">>), Str(<<"b">>)>>

\* C13 as stated: every item of every issue the resolver returns, from a
\* snapshot or from the raw files, has a summary that is a non-empty text.
C13_SummaryNeverEmpty_AsStated ==
    Called("getIssues") =>
        \A k \in 1..Len(Returned) :
            LET papers == Prop(Returned[k], "papers")
            IN  IsArray(papers) =>
                    \A n \in 1..Len(papers.a) :
                        /\ papers.a[n].t = "object"
                        /\ Prop(papers.a[n], "summary").t = "string"
                        /\ Prop(papers.a[n], "summary").s # <<>>

(***************************************************************************)
(* Properties of the paper parser                                           *)
(***************************************************************************)
\* the Paper a parsePaper call returned, and the text of the file it read
Parsed == result[1].ret.v

ParsedText == ReadPaper(result[1].call.date, result[1].call.file)

FirstLine == <<"n", "o", " ", "h", "e", "a", "d", "i", "n", "g", " ", "h", "e", "r", "e">>

SecondLine ==
    <<"a", "c", "t", "u", "a", "l", " ", "f", "i", "r", "s", "t", " ",
      "s", "e", "n", "t", "e", "n", "c", "e", ".">>

\* C12 as stated: for the document without header whose body is
\* "no heading here\nactual first sentence.", the title is the id derived
\* from the file name and the summary is "actual first sentence.".
C12_NoHeaderDocument_AsStated ==
    Called("parsePaper") /\ ParsedText = FirstLine \o NL \o SecondLine
        => /\ Prop(Parsed, "title") = Str(<<"a">>)
           /\ Prop(Parsed, "summary") = Str(SecondLine)

\* C12 (amended): for that document the title is the id derived from the
\* file name and the summary is its first line, "no heading here".
C12_NoHeaderDocument ==
    Called("parsePaper") /\ ParsedText = FirstLine \o NL \o SecondLine
        => /\ Prop(Parsed, "title") = Str(<<"a">>)
           /\ Prop(Parsed, "summary") = Str(FirstLine)

\* a.md holding exactly that document has been parsed
C12_Witness ==
    /\ Called("parsePaper")
    /\ result[1].call.file = <<"a", ".", "m", "d">>
    /\ ParsedText = FirstLine \o NL \o SecondLine
    /\ Prop(Parsed, "id") = Str(<<"a">>)
    /\ Prop(Parsed, "summary") = Str(FirstLine)

\* the value of the tags header of the parsed file, empty when there is none
TagsKey == <<"t", "a", "g", "s">>

HasTagsHeader == TagsKey \in DOMAIN parseFrontMatter(ParsedText).data

TagsValue == IF HasTagsHeader THEN parseFrontMatter(ParsedText).data[TagsKey] ELSE <<>>

\* one opening bracket at the start and one closing bracket at the end dropped
StripSurrounding(v) ==
    LET a == IF v # <<>> /\ Head(v) = "[" THEN Tail(v) ELSE v
    IN  IF a # <<>> /\ a[Len(a)] = "]" THEN SubSeq(a, 1, Len(a) - 1) ELSE a

\* the list of tags as a value
TagList(q) == Arr([k \in 1..Len(q) |-> Str(q[k])])

ExampleTagsHeader ==
    <<"-", "-", "-", "\n", "t", "a", "g", "s", ":", " ", "\"", "[", "r",
      "l", ",", " ", "s", "c", "a", "l", "i", "n", "g", ",", " ", "m", "o",
      "e", "]", "\"", "\n", "-", "-", "-", "\n">>

ExampleTags == TagList(<<<<"r", "l">>, <<"s", "c", "a", "l", "i", "n", "g">>, <<"m", "o", "e">>>>)

\* what the claim says besides the rule: no tag is empty, no tags header
\* gives no tags, the example header gives rl, scaling, moe
TagsConsequences ==
    LET tags == Prop(Parsed, "tags")
    IN  /\ IsArray(tags)
        /\ \A k \in 1..Len(tags.a) : tags.a[k].t = "string" /\ tags.a[k].s # <<>>
        /\ ~HasTagsHeader => tags = Arr(<<>>)
        /\ StartsWith(ParsedText, ExampleTagsHeader) => tags = ExampleTags

\* C14 as stated: the tags are the comma-separated pieces of the tags value
\* with its surrounding brackets stripped, each trimmed and unquoted, in
\* source order, the empty ones discarded; so no tag is empty, a file without
\* tags header has no tags, and tags: "[rl, scaling, moe]" gives rl, scaling,
\* moe.
C14_Tags_AsStated ==
    Called("parsePaper") =>
        LET pieces == Split(StripSurrounding(TagsValue), ",")
        IN  /\ Prop(Parsed, "tags") =
                   TagList(Compact([k \in 1..Len(pieces) |-> StripQuotes(Trim(pieces[k]))]))
            /\ TagsConsequences

\* C14 (amended): the tags are the comma-separated pieces of the tags value,
\* each with every bracket in it removed, then trimmed and unquoted, in
\* source order, the empty ones discarded; so no tag is empty, a file without
\* tags header has no tags, and tags: "[rl, scaling, moe]" gives rl, scaling,
\* moe.
C14_Tags ==
    Called("parsePaper") =>
        LET pieces == Split(TagsValue, ",")
        IN  /\ Prop(Parsed, "tags") =
                   TagList(Compact([k \in 1..Len(pieces) |->
                                       StripQuotes(Trim(RemoveBrackets(pieces[k])))]))
            /\ TagsConsequences

\* a file with the header  tags: [a[b], ,"c"]  has been parsed: the inner
\* brackets are gone, the empty piece is dropped, the quotes are removed
C14_Witness ==
    /\ Called("parsePaper")
    /\ TagsValue = <<"[", "a", "[", "b", "]", ",", " ", ",", "\"", "c", "\"", "]">>
    /\ Prop(Parsed, "tags") = TagList(<<<<"a", "b">>, <<"c">>>>)

(***************************************************************************)
(* Properties of the front-matter splitter                                  *)
(***************************************************************************)
OpensWithFence(text) == StartsWith(text, Fence \o NL)

\* no line after the first is a fence line
NoClosingFence(text) ==
    LET ls == Split(text, "\n")
    IN  \A n \in 2..Len(ls) : Trim(ls[n]) # Fence

\* C9: without an opening fence line, or without a closing fence line after
\* it, parseFrontMatter returns the empty mapping and the whole text as body.
C9_FrontMatterFallback ==
    fpc = "parsed" /\ (~OpensWithFence(raw) \/ NoClosingFence(raw))
        => fm = Some([data |-> EmptyData, body |-> raw])

\* an opened header with a key: value line, never closed
C9_Witness ==
    /\ fpc = "parsed"
    /\ OpensWithFence(raw)
    /\ NoClosingFence(raw)
    /\ \E n \in 2..Len(Split(raw, "\n")) : IndexOf(Split(raw, "\n")[n], ":") > 0
    /\ fm = Some([data |-> EmptyData, body |-> raw])

\* the returned pairs written back as "key: value" lines between two fences,
\* followed by the returned body
RECURSIVE PairLines(_, _)
PairLines(data, keys) ==
    IF keys = {} THEN <<>>
    ELSE LET k == CHOOSE x \in keys : TRUE
         IN  <<k \o <<":", " ">> \o data[k]>> \o PairLines(data, keys \ {k})

Serialise(split) ==
    Join(<<Fence>> \o PairLines(split.data, DOMAIN split.data) \o <<Fence, split.body>>, NL)

WellFormedSplit(text) == OpensWithFence(text) /\ ~NoClosingFence(text)

\* C10 as stated: for every document with a well-formed header/body split,
\* splitting the serialised split again yields the same mapping and body.
C10_RoundTrip_AsStated ==
    fpc = "parsed" /\ WellFormedSplit(raw)
        => parseFrontMatter(Serialise(fm[1])) = fm[1]

\* a value that a "key: value" line gives back unchanged: it neither starts
\* nor ends with a double quote or a whitespace character
PlainValue(v) ==
    v = <<>> \/ ( /\ Head(v) \notin Whitespace \cup {Quote}
                  /\ v[Len(v)] \notin Whitespace \cup {Quote} )

PlainPairs(data) == \A k \in DOMAIN data : k # <<>> /\ PlainValue(data[k])

\* C10 (amended): the round trip holds for every document with a
\* well-formed split whose returned keys are non-empty and whose returned
\* values neither start nor end with a double quote or a whitespace character.
C10_RoundTrip ==
    fpc = "parsed" /\ WellFormedSplit(raw) /\ PlainPairs(fm[1].data)
        => parseFrontMatter(Serialise(fm[1])) = fm[1]

\* a well-formed document with at least one pair and a non-empty body
C10_Witness ==
    /\ fpc = "parsed"
    /\ WellFormedSplit(raw)
    /\ PlainPairs(fm[1].data)
    /\ DOMAIN fm[1].data # {}
    /\ fm[1].body # <<>>
    /\ parseFrontMatter(Serialise(fm[1])) = fm[1]

\* the 1-based number of the first fence line after the opening one
ClosingFence(ls) ==
    CHOOSE n \in 2..Len(ls) :
        Trim(ls[n]) = Fence /\ \A m \in 2..(n - 1) : Trim(ls[m]) # Fence

\* the header lines whose first colon is at 0-based index from or later
HeaderPairs(ls, from) ==
    { n \in 2..(ClosingFence(ls) - 1) : IndexOf(ls[n], ":") >= from }

KeyOf(line) == ToLowerCase(Trim(Slice(line, 0, IndexOf(line, ":"))))

ValueOf(line) == StripQuotes(Trim(SliceFrom(line, IndexOf(line, ":") + 1)))

\* the last of the lines in pairs that carries the key
LastWith(ls, pairs, key) ==
    CHOOSE n \in pairs :
        KeyOf(ls[n]) = key /\ \A m \in pairs : KeyOf(ls[m]) = key => m <= n

\* the split the header scan is said to return when the lines in pairs are
\* the ones parsed: each key with the value of its last line, and as body
\* everything after the first closing fence
ScannedSplit(ls, pairs) ==
    [data |-> [key \in { KeyOf(ls[n]) : n \in pairs } |->
                  ValueOf(ls[LastWith(ls, pairs, key)])],
     body |-> Join(SubSeq(ls, ClosingFence(ls) + 1, Len(ls)), NL)]

\* C11 as stated: every line between the fences that has a colon is a pair,
\* split at its first colon; lines without a colon are ignored; the last
\* occurrence of a key wins; the body is what follows the closing fence.
C11_HeaderScan_AsStated ==
    fpc = "parsed" /\ WellFormedSplit(raw)
        => fm[1] = ScannedSplit(Split(raw, "\n"), HeaderPairs(Split(raw, "\n"), 0))

\* C11 (amended): the lines between the fences that are parsed as pairs are
\* those whose first colon is not their first character; lines without a
\* colon, and lines that begin with the colon, are ignored; the key is the
\* trimmed, lower-cased text before the first colon, the last occurrence of
\* a key wins, and the body is everything after the first closing fence.
C11_HeaderScan ==
    fpc = "parsed" /\ WellFormedSplit(raw)
        => fm[1] = ScannedSplit(Split(raw, "\n"), HeaderPairs(Split(raw, "\n"), 1))

\* a header in which one key occurs on two lines with different values
C11_Witness ==
    /\ fpc = "parsed"
    /\ WellFormedSplit(raw)
    /\ LET ls == Split(raw, "\n")
       IN  \E m, n \in HeaderPairs(ls, 1) :
               /\ m < n
               /\ KeyOf(ls[m]) = KeyOf(ls[n])
               /\ ValueOf(ls[m]) # ValueOf(ls[n])
               /\ fm[1].data[KeyOf(ls[n])] = ValueOf(ls[n])

(***************************************************************************)
(* Properties of the block parser                                           *)
(***************************************************************************)
RECURSIVE Flatten(_)
Flatten(ss) == IF ss = <<>> THEN <<>> ELSE Head(ss) \o Flatten(Tail(ss))

StrictlyIncreasing(q) == \A a, b \in 1..Len(q) : a < b => q[a] < q[b]

\* a block expanded into its units: list items, code interior lines, or the
\* one text of any other block
UnitsOf(block, src) ==
    IF block.kind = "list" THEN block.items
    ELSE IF block.kind = "code"
    THEN IF src = <<>> THEN <<>> ELSE Split(block.text, "\n")
    ELSE <<block.text>>

RECURSIVE Units(_, _)
Units(bs, srcs) ==
    IF bs = <<>> THEN <<>>
    ELSE UnitsOf(Head(bs), Head(srcs)) \o Units(Tail(bs), Tail(srcs))

RECURSIVE IsSubsequence(_, _)
IsSubsequence(u, s) ==
    IF u = <<>> THEN TRUE
    ELSE IF s = <<>> THEN FALSE
    ELSE IF Head(u) = Head(s) THEN IsSubsequence(Tail(u), Tail(s))
    ELSE IsSubsequence(u, Tail(s))

\* 0-based indices of the lines that are not blank
NonBlankLines(ls) == { n \in 0..(Len(ls) - 1) : Trim(ls[n + 1]) # <<>> }

\* 0-based indices of the code fence delimiter lines
FenceLines(ls) == { n \in 0..(Len(ls) - 1) : StartsWith(Trim(ls[n + 1]), Backticks) }

\* the blocks, expanded, are in source line order, each unit is taken from
\* its line (what is left of the line once markers are stripped), and no
\* line is used twice
InSourceOrder ==
    LET at == Flatten(origin)
        us == Units(blocks, origin)
    IN  /\ Len(blocks) = Len(origin)
        /\ StrictlyIncreasing(at)
        /\ Len(us) = Len(at)
        /\ \A k \in 1..Len(at) :
              /\ at[k] \in 0..(Len(mdLines) - 1)
              /\ IsSubsequence(us[k], mdLines[at[k] + 1])

\* C2 as stated: the blocks, expanded in order, contain every non-blank
\* input line exactly once.
C2_EveryNonBlankLine_AsStated ==
    bpc = "done" =>
        InSourceOrder /\ NonBlankLines(mdLines) \subseteq Range(Flatten(origin))

\* C2 (amended): parseBlocks is total and order-preserving: the blocks,
\* expanded in order, contain exactly once every non-blank input line that
\* is not a code fence delimiter line; the fence lines are in no block.
C2_EveryNonBlankLine ==
    bpc = "done" =>
        /\ InSourceOrder
        /\ NonBlankLines(mdLines) \ FenceLines(mdLines) \subseteq Range(Flatten(origin))
        /\ FenceLines(mdLines) \cap Range(Flatten(origin)) = {}

\* a list run followed by a paragraph: three non-blank lines, two blocks
C2_Witness ==
    /\ bpc = "done"
    /\ Len(mdLines) = 3
    /\ NonBlankLines(mdLines) = {0, 1, 2}
    /\ Len(blocks) = 2
    /\ blocks[1].kind = "list"
    /\ Len(blocks[1].items) = 2
    /\ blocks[2].kind = "p"
    /\ Flatten(origin) = <<0, 1, 2>>

\* a fence line: a line that starts, once trimmed, with three backticks
IsFenceLine(k) == StartsWith(Trim(mdLines[k]), Backticks)

\* line k (from 1) is inside a code region, its closing fence included: the
\* fence lines before it are odd in number
InCode(k) == Cardinality({ j \in 1..(k - 1) : IsFenceLine(j) }) % 2 = 1

\* a list-marker line outside the code regions
IsListLine(k) ==
    k \in 1..Len(mdLines) /\ ~InCode(k) /\ StartsWith(Trim(mdLines[k]), <<"-", " ">>)

\* the lines that yield a block: not blank, outside the code regions, not
\* continuing a list run
BlockLines ==
    { k \in 1..Len(mdLines) :
        /\ Trim(mdLines[k]) # <<>>
        /\ ~InCode(k)
        /\ ~(IsListLine(k) /\ IsListLine(k - 1)) }

\* the kind of the first rule that matches a non-blank line
RuleKind(line) ==
    IF StartsWith(line, <<"#", "#", "#", " ">>) THEN "h3"
    ELSE IF StartsWith(line, <<"#", "#", " ">>) THEN "h2"
    ELSE IF StartsWith(line, <<">", " ", "[", "!", "N", "O", "T", "E", "]">>) THEN "callout"
    ELSE IF StartsWith(line, <<">", " ">>) THEN "quote"
    ELSE IF StartsWith(line, Backticks) THEN "code"
    ELSE IF StartsWith(line, <<"*", "F", "i", "g", "u", "r", "e", ":">>) THEN "figcaption"
    ELSE IF StartsWith(line, <<"-", " ">>) THEN "list"
    ELSE "p"

\* the first lines of the list runs, and the last line of the run of line k
RunStarts == { k \in 1..Len(mdLines) : IsListLine(k) /\ ~IsListLine(k - 1) }

RunEnd(k) ==
    CHOOSE m \in k..Len(mdLines) :
        (\A j \in k..m : IsListLine(j)) /\ ~IsListLine(m + 1)

\* the list block of the run that starts at line k: the trimmed lines of
\* the run without their first two characters, the marker
RunBlock(k) ==
    [kind |-> "list",
     items |-> [t \in 1..(RunEnd(k) - k + 1) |-> SliceFrom(Trim(mdLines[k + t - 1]), 2)]]

C29_Terminates ==
    /\ [][bpc = "loop" /\ i < Len(mdLines) =>
            /\ i' > i /\ i' <= Len(mdLines) + 1
            /\ IsListLine(i + 1) => i' >= i + 1 /\ i' <= Len(mdLines)
            /\ IsFenceLine(i + 1) => i' >= i + 2]_vars
    /\ <>(bpc = "done")

\* the scan of a body that ends in a list run, or in a code region that no
\* fence closes, has returned
C29_Witness ==
    /\ bpc = "done"
    /\ \/ markdown = UnterminatedFence /\ i = Len(mdLines) + 1
       \/ Len(mdLines) = 2 /\ IsListLine(1) /\ IsListLine(2) /\ i = 2

\* C27: block recognition is first-match-wins.  Every non-blank line that
\* is outside a code region and does not continue a list run yields exactly
\* one block, of the kind of the first matching rule in the order level-3
\* heading, level-2 heading, [!NOTE] callout, quote, code fence, figure
\* caption, list, paragraph: the blocks returned are one per such line, in
\* line order, each of that kind.  A line starting with '> [!NOTE]' gives a
\* callout and never a quote, and a blank line gives no block.
C27_FirstMatchWins ==
    /\ [][bpc = "loop" /\ i < Len(mdLines) =>
            IF Trim(mdLines[i + 1]) = <<>> THEN blocks' = blocks
            ELSE /\ (i + 1) \in BlockLines
                 /\ Len(blocks') = Len(blocks) + 1
                 /\ SubSeq(blocks', 1, Len(blocks)) = blocks
                 /\ blocks'[Len(blocks')].kind = RuleKind(Trim(mdLines[i + 1]))]_vars
    /\ [](bpc = "done" =>
            [j \in 1..Len(blocks) |-> blocks[j].kind] =
                [j \in 1..Cardinality(BlockLines) |->
                    RuleKind(Trim(mdLines[Ascending(BlockLines)[j]]))])

\* a callout line, a quote line and a blank line gave a callout and a quote
C27_Witness ==
    /\ bpc = "done"
    /\ Len(mdLines) = 3
    /\ StartsWith(mdLines[1], NoteTag)
    /\ Trim(mdLines[2]) = <<>>
    /\ Len(blocks) = 2
    /\ blocks[1].kind = "callout" /\ blocks[2].kind = "quote"

\* the position (from 1) of the first fence line after position open, or
\* one past the last line when there is none
ClosingOf(open) ==
    LET later == { k \in (open + 1)..Len(mdLines) : IsFenceLine(k) }
    IN  IF later = {} THEN Len(mdLines) + 1
        ELSE CHOOSE k \in later : \A m \in later : k <= m

\* the step of the loop on a fence line: one code block of the lines between
\* the fence and its closing fence, and the scan goes on after that fence
FenceStep ==
    bpc = "loop" /\ i < Len(mdLines) /\ IsFenceLine(i + 1) =>
        /\ blocks' = Append(blocks,
                            [kind |-> "code",
                             text |-> Join(SubSeq(mdLines, i + 2, ClosingOf(i + 1) - 1), NL)])
        /\ i' = ClosingOf(i + 1)
        /\ bpc' = "loop"

\* C18: code fences.  The step on a line starting with three backticks
\* takes the following lines as they are up to the next fence line or the
\* end of the input, adds exactly one code block whose text is those lines
\* joined by newlines and nothing else, and leaves the scan right after the
\* closing fence; the body made of a fence and three more lines gives one
\* code block holding the three lines and no other block.
C18_CodeFences ==
    /\ [][FenceStep]_vars
    /\ [](bpc = "done" /\ markdown = UnterminatedFence =>
             blocks = <<[kind |-> "code",
                         text |-> <<"#", "#", " ", "h", "\n", " ", "\n", "-", " ", "a">>]>>)

\* the body with the unterminated fence has been scanned to its end and
\* gave one code block
C18_Witness ==
    /\ bpc = "done"
    /\ markdown = UnterminatedFence
    /\ Len(blocks) = 1
    /\ blocks[1].kind = "code"

(***************************************************************************)
(* Properties of concurrent resolver calls                                  *)
(***************************************************************************)
\* what the call returns when it runs alone on the tree
ReturnsAlone(call) ==
    CASE call.op = "getIssues" -> Return(Arr(getIssues))
      [] call.op = "getIssue" -> Return(getIssue(call.date))
      [] call.op = "getPaper" -> getPaper(call.date, call.paperId)

\* a step leaves the tree as it is and writes the locals of one call at most
StepIsLocal ==
    /\ fs' = fs
    /\ \A p, q \in DOMAIN calls : p # q /\ calls'[p] # calls[p] => calls'[q] = calls[q]

\* C19: resolution is read-only, idempotent and safe under concurrency.
\* Whatever the interleaving of the calls' steps, no step changes the file
\* tree or the locals of a call other than the one that takes it, and a
\* call that has returned has returned what it returns when run alone on
\* the tree (so the same result every time it is repeated).
C19_ReadOnlyConcurrent ==
    /\ [][StepIsLocal]_vars
    /\ [](\A p \in DOMAIN calls :
             calls[p].pc = "done" => calls[p].ret = Some(ReturnsAlone(calls[p].call)))

\* one call has returned the paper a of 2026-02-12 while another call is
\* half-way through the issue directories
C19_Witness ==
    \E p, q \in DOMAIN calls :
        /\ p # q
        /\ calls[p].pc = "done"
        /\ calls[p].call.op = "getPaper"
        /\ calls[p].ret[1].t = "return"
        /\ calls[p].ret[1].v # Null
        /\ calls[q].pc = "map"
        /\ Len(calls[q].issues) = 1
        /\ Len(calls[q].dates) = 1

(***************************************************************************)
(* Properties of the figure handler                                         *)
(***************************************************************************)
\* the directory of the figures of a date
FiguresDir(date) ==
    <<<<"i", "s", "s", "u", "e", "s">>, date, <<"a", "s", "s", "e", "t", "s">>,
      <<"f", "i", "g", "u", "r", "e", "s">>>>

\* the file name of a request: the segments after the second, joined
RequestedName(pieces) == Join(SubSeq(pieces, 3, Len(pieces)), <<"/">>)

\* the content type that goes with the end of a file name
TypeByExtension(name) ==
    LET lower == ToLowerCase(name)
    IN  IF EndsWith(lower, <<".", "p", "n", "g">>) THEN "image/png"
        ELSE IF EndsWith(lower, <<".", "j", "p", "g">>)
                    \/ EndsWith(lower, <<".", "j", "p", "e", "g">>) THEN "image/jpeg"
        ELSE IF EndsWith(lower, <<".", "w", "e", "b", "p">>) THEN "image/webp"
        ELSE IF EndsWith(lower, <<".", "g", "i", "f">>) THEN "image/gif"
        ELSE "image/svg+xml"

\* C20: asset requests are sanitised before any file access.  The handler
\* answers 200 only to a request whose date segment has the form YYYY-MM-DD
\* and whose file name holds no "..", and then it serves a regular file
\* below issues/<date>/assets/figures and touches nothing else, with the
\* content type of the file's extension (png, jpeg, webp, gif, else svg); a
\* request with another date or with ".." in the file name is refused and
\* no path is handed to the file system.
C20_SanitisedAssets ==
    Called("GET") =>
        LET pieces == result[1].call.pieces
            ret == result[1].ret
            dir == FiguresDir(pieces[1])
        IN  /\ ret.status = 200 =>
                  /\ Len(pieces) >= 3
                  /\ IsDateKey(pieces[1])
                  /\ ~Includes(RequestedName(pieces), <<".", ".">>)
                  /\ Len(ret.served) > Len(dir)
                  /\ SubSeq(ret.served, 1, Len(dir)) = dir
                  /\ <<".", ".">> \notin Range(ret.served)
                  /\ IsFile(ret.served)
                  /\ ret.touched = {ret.served}
                  /\ ret.contentType = TypeByExtension(ret.served[Len(ret.served)])
            /\ Len(pieces) >= 3
                  /\ (~IsDateKey(pieces[1]) \/ Includes(RequestedName(pieces), <<".", ".">>))
                  => ret.status # 200 /\ ret.touched = {}

\* the request 2026-02-12/figures/a.JPG has been answered with the file,
\* as image/jpeg
C20_Witness ==
    /\ Called("GET")
    /\ result[1].call.pieces = <<Date0212, <<"f", "i", "g", "u", "r", "e", "s">>, <<"a", ".", "J", "P", "G">>>>
    /\ result[1].ret.status = 200
    /\ result[1].ret.contentType = "image/jpeg"
    /\ result[1].ret.served = FiguresDir(Date0212) \o <<<<"a", ".", "J", "P", "G">>>>

(***************************************************************************)
(* Properties of the image path                                             *)
(***************************************************************************)
\* C31 as stated: an image path the paper parser produced is servable by
\* the figure handler.  Handed the segments below /issues/ of the URL
\* /issues/{date}/assets/figures/{filename}, the handler passes its shape
\* check and serves the file issues/{date}/assets/figures/{filename}.
C31_ImageServable_AsStated ==
    Called("GET") =>
        LET pieces == result[1].call.pieces
        IN  /\ result[1].call.url =
                   <<"/", "i", "s", "s", "u", "e", "s", "/">> \o pieces[1]
                       \o <<"/", "a", "s", "s", "e", "t", "s", "/",
                            "f", "i", "g", "u", "r", "e", "s", "/">> \o pieces[4]
            /\ result[1].ret.status = 200
            /\ result[1].ret.served =
                   <<<<"i", "s", "s", "u", "e", "s">>, pieces[1],
                     <<"a", "s", "s", "e", "t", "s">>,
                     <<"f", "i", "g", "u", "r", "e", "s">>, pieces[4]>>

(***************************************************************************)
(* Properties of the language                                               *)
(***************************************************************************)
\* C32 as stated: the language choice is consistent across the page.  After
\* the toggle has called setLang(next), the stored language, the document's
\* lang attribute and the language of every mounted component that uses
\* useLang all equal next, after any sequence of clicks.
C32_LanguageConsistent_AsStated ==
    page.phase = "rendered" /\ page.next # None =>
        /\ page.saved = page.next
        /\ page.docLang = (IF page.next = Some("zh") THEN "zh-CN" ELSE "en")
        /\ \A c \in DOMAIN page.comps :
              page.comps[c].mounted => page.comps[c].lang = page.next[1]

(***************************************************************************)
(* Properties of the theme                                                  *)
(***************************************************************************)
\* the theme the document shows
Shown == IF page.dark THEN "dark" ELSE "light"

\* on load the document is dark iff the stored theme is dark, or nothing is
\* stored and the system prefers dark
DarkOnLoad ==
    page.phase = "loading" =>
        (page'.phase = "scripted" =>
            (page'.dark <=> \/ page.stored = Some("dark")
                            \/ page.stored = None /\ page.prefersDark))

\* after a click the document, the storage and the component agree
AgreeAfterClicks ==
    page.phase \in {"rendered", "mounted"} /\ page.clicks >= 1 =>
        page.stored = Some(Shown) /\ page.theme = Shown

\* a click flips the document and stores the theme it shows then
ClickFlips ==
    page'.clicks = page.clicks + 1 =>
        page'.dark = ~page.dark /\ page'.stored = Some(IF page'.dark THEN "dark" ELSE "light")

\* C21 as stated: on load the document is dark iff the stored theme is dark,
\* or nothing is stored and the system prefers dark; every click flips the
\* document between light and dark and stores the new value; after any
\* clicks, however they interleave with the mount effect, the document's
\* class, the stored theme and the component's theme agree.
C21_DarkMode_AsStated == [][DarkOnLoad /\ ClickFlips]_vars /\ []AgreeAfterClicks

====
